---- MODULE Spec2Model ----
(***************************************************************************)
(* State-machine model of the telemetry / adaptive-bitrate core:           *)
(*   alvr/client_core/src/statistics.rs  (client StatisticsManager)        *)
(*   alvr/server/src/statistics.rs       (server StatisticsManager)        *)
(*   alvr/server/src/bitrate.rs          (BitrateManager)                  *)
(*                                                                         *)
(* The three objects share no state.  A behaviour drives exactly one of    *)
(* them (variable `driven`, fixed by Init); the other two stay as          *)
(* constructed.  Instants are integers counted in clock ticks from         *)
(* construction; the trackers' durations are in ticks too, the bitrate     *)
(* controller's in milliseconds.  f32 quantities are modelled by integers  *)
(* (divisions are floor divisions).                                        *)
(***************************************************************************)
EXTENDS Integers, Sequences, FiniteSets, TLC

VARIABLES
    driven,                     \* which object this behaviour exercises
    calls,                      \* number of calls made on it so far
    now,                        \* Instant::now()
    \* ---- client StatisticsManager (client_core/src/statistics.rs:17-25)
    client_max_history_size,
    client_history_buffer,
    client_prev_vsync,
    client_total_pipeline_latency_average,
    client_stats_history_buffer,
    client_ret,                 \* last client call and what it returned
    \* ---- server StatisticsManager (server/src/statistics.rs:48-70)
    server_max_history_size,
    server_history_buffer,
    server_last_full_report_instant,
    server_last_frame_present_instant,
    server_last_frame_present_interval,
    server_counters,            \* video_packets_*, video_bytes_*, packets_lost_*
    server_battery_gauges,
    server_steamvr_pipeline_latency,
    server_total_pipeline_latency_average,
    server_last_vsync_time,
    server_frame_interval,
    server_last_nominal_bitrate_stats,
    server_map_frames_spf,
    server_prev_highest_shard,
    server_prev_highest_frame,
    server_fault,               \* "none", or "panic" / "hang" once a call did not return
    server_ret,                 \* last server call and what it returned / emitted
    \* ---- BitrateManager (server/src/bitrate.rs:17-43)
    bitrate_max_history_size,
    bitrate_initial_bitrate,    \* what new() seeds bitrate_average with
    bitrate_nominal_frame_interval,
    bitrate_frame_interval_average,
    bitrate_packet_sizes_bits_history,
    bitrate_encoder_latency_average,
    bitrate_network_latency_average,
    bitrate_bitrate_average,
    bitrate_decoder_latency_overstep_count,
    bitrate_last_frame_instant,
    bitrate_last_update_instant,
    bitrate_dynamic_max_bitrate,
    bitrate_previous_config,
    bitrate_update_needed,
    bitrate_last_target_bitrate,
    bitrate_frame_interarrival_average,
    bitrate_rtt_average,
    bitrate_update_interval_setting,
    bitrate_heur_stats,
    bitrate_peak_throughput_average,
    bitrate_ret                 \* last controller call and what it returned

client_vars == <<client_max_history_size, client_history_buffer, client_prev_vsync,
                 client_total_pipeline_latency_average, client_stats_history_buffer,
                 client_ret>>

\* fields the constructor fixes
server_params == <<server_max_history_size, server_steamvr_pipeline_latency,
                   server_total_pipeline_latency_average, server_frame_interval>>

server_present == <<server_last_frame_present_instant, server_last_frame_present_interval>>

server_shards == <<server_map_frames_spf, server_prev_highest_shard,
                   server_prev_highest_frame>>

server_vars == <<server_params, server_history_buffer, server_last_full_report_instant,
                 server_present, server_counters, server_battery_gauges,
                 server_last_vsync_time, server_last_nominal_bitrate_stats,
                 server_shards, server_fault, server_ret>>

\* fields the constructor fixes
bitrate_params == <<bitrate_max_history_size, bitrate_initial_bitrate,
                    bitrate_nominal_frame_interval>>

bitrate_frames == <<bitrate_last_frame_instant, bitrate_frame_interval_average>>

bitrate_queue == <<bitrate_encoder_latency_average, bitrate_packet_sizes_bits_history>>

bitrate_latencies == <<bitrate_network_latency_average, bitrate_bitrate_average,
                       bitrate_decoder_latency_overstep_count, bitrate_dynamic_max_bitrate>>

bitrate_gate == <<bitrate_last_update_instant, bitrate_previous_config,
                  bitrate_update_interval_setting>>

bitrate_network == <<bitrate_rtt_average, bitrate_peak_throughput_average,
                     bitrate_frame_interarrival_average>>

bitrate_vars == <<bitrate_params, bitrate_frames, bitrate_queue, bitrate_latencies,
                  bitrate_gate, bitrate_network, bitrate_update_needed,
                  bitrate_last_target_bitrate, bitrate_heur_stats, bitrate_ret>>

vars == <<driven, calls, now, client_vars, server_vars, bitrate_vars>>

----------------------------------------------------------------------------
(* Bounds of the model *)

\* the clock runs from 0 to MaxNow
MaxNow == 2
\* a behaviour makes at most this many calls on the client / the server tracker
MaxClientCalls == 5
MaxServerCalls == 4
\* ... and on the bitrate controller
MaxBitrateCalls == 4
\* ... and on the bitrate controller when only frames are presented and the encoder
\* parameters are read: enough to fill a window of more than RETAINED_SAMPLES samples
MaxPresentCalls == 7
\* frame identifiers (target_timestamp) are 1..MaxTimestamp
MaxTimestamp == 3
\* the constructor's max_history_size is drawn from 1..MaxHistorySize
MaxHistorySize == 2
\* the client's completed-record queue is explored up to this length
MaxStatsQueue == 2

Timestamps == 1..MaxTimestamp
\* calls that fill the largest ring, evict from it once and report once
MaxRingCalls == MaxHistorySize + 2
Instants == 0..MaxNow

----------------------------------------------------------------------------
(* Helpers *)

Max(a, b) == IF a >= b THEN a ELSE b
Min(a, b) == IF a <= b THEN a ELSE b

\* Instant::saturating_duration_since / Duration::saturating_sub
saturating_sub(a, b) == IF a >= b THEN a - b ELSE 0

RECURSIVE SeqSum(_)
SeqSum(s) == IF Len(s) = 0 THEN 0 ELSE Head(s) + SeqSum(Tail(s))

\* index of the first frame of s whose target_timestamp is ts, 0 when there is none
\* (Iterator::position / Iterator::find)
position(s, ts) ==
    IF \E i \in 1..Len(s) : s[i].target_timestamp = ts
    THEN CHOOSE i \in 1..Len(s) :
            /\ s[i].target_timestamp = ts
            /\ \A j \in 1..(i - 1) : s[j].target_timestamp # ts
    ELSE 0

\* mutant of remove_at: the front of the queue is removed (VecDeque::pop_front)
remove_front(s, i) == Tail(s)

\* VecDeque::remove(index)
remove_at(s, i) == SubSeq(s, 1, i - 1) \o SubSeq(s, i + 1, Len(s))

\* SlidingWindowAverage (alvr_common): submit_sample, get_average
swa_submit_sample(avg, v, cap) ==
    LET pushed == Append(avg, v)
    IN  IF Len(pushed) > cap THEN Tail(pushed) ELSE pushed

swa_get_average(avg, seed) ==
    IF Len(avg) = 0 THEN seed ELSE SeqSum(avg) \div Len(avg)

----------------------------------------------------------------------------
(* Client StatisticsManager *)

\* the transport's VideoStatsRx payloads the client is handed
VideoStatsRxSet ==
    { [rx_shard_counter |-> c, highest_rx_frame_index |-> 0, highest_rx_shard_index |-> 0]
        : c \in {1, 2} }

\* ClientStatistics { target_timestamp, ..Default::default() }
DefaultVideoStats ==
    [rx_shard_counter |-> 0, highest_rx_frame_index |-> 0, highest_rx_shard_index |-> 0]

NewClientFrame(ts) ==
    [ target_timestamp |-> ts,
      input_acquired |-> now,
      video_packet_received |-> now,
      video_decode |-> 0,
      video_decoder_queue |-> 0,
      rendering |-> 0,
      vsync_queue |-> 0,
      total_pipeline_latency |-> 0,
      frame_interval |-> 0,
      video_stats |-> DefaultVideoStats ]

\* a lookup that settles for the newest frame
ClientFindNewest(ts) == IF Len(client_history_buffer) > 0 THEN 1 ELSE 0

\* history_buffer.iter_mut().find(|frame| frame.client_stats.target_timestamp == ts)
ClientFind(ts) == position(client_history_buffer, ts)

NoRecord == [target_timestamp |-> 0]

ClientInit ==
    /\ client_max_history_size \in 1..MaxHistorySize
    /\ client_history_buffer = <<>>
    /\ client_prev_vsync = 0
    /\ client_total_pipeline_latency_average = <<>>
    /\ client_stats_history_buffer = <<>>
    /\ client_ret = [op |-> "new", ts |-> 0, found |-> FALSE, record |-> NoRecord]

\* ring_insert without the pop_back
ring_insert_never_pops(buf, present, frame, cap) ==
    IF present THEN buf ELSE <<frame>> \o buf

\* ring_insert without the presence test
ring_insert_always_pushes(buf, present, frame, cap) ==
    LET pushed == <<frame>> \o buf
    IN  IF Len(pushed) > cap THEN SubSeq(pushed, 1, Len(pushed) - 1) ELSE pushed

\* ring_insert at the wrong end: push_back, then pop_front
ring_insert_pushes_back(buf, present, frame, cap) ==
    LET pushed == IF present THEN buf ELSE buf \o <<frame>>
    IN  IF Len(pushed) > cap THEN Tail(pushed) ELSE pushed

\* push_front if absent, then pop_back if over capacity
\* (client report_input_acquired, server report_tracking_received)
ring_insert(buf, present, frame, cap) ==
    LET pushed == IF present THEN buf ELSE <<frame>> \o buf
    IN  IF Len(pushed) > cap THEN SubSeq(pushed, 1, Len(pushed) - 1) ELSE pushed

client_report_input_acquired(ts) ==
    /\ client_history_buffer' =
           ring_insert(client_history_buffer, ClientFind(ts) # 0, NewClientFrame(ts),
                       client_max_history_size)
    /\ client_ret' = [op |-> "report_input_acquired", ts |-> 0, found |-> ClientFind(ts) # 0,
                      record |-> NoRecord]
    /\ UNCHANGED <<client_max_history_size, client_prev_vsync,
                   client_total_pipeline_latency_average, client_stats_history_buffer>>

client_report_video_packet_received(ts) ==
    LET i == ClientFind(ts)
    IN  /\ client_history_buffer' =
               IF i = 0 THEN client_history_buffer
               ELSE [client_history_buffer EXCEPT ![i].video_packet_received = now]
        /\ client_ret' = [op |-> "report_video_packet_received", ts |-> 0, found |-> i # 0,
                          record |-> NoRecord]
        /\ UNCHANGED <<client_max_history_size, client_prev_vsync,
                       client_total_pipeline_latency_average, client_stats_history_buffer>>

client_report_video_statistics(ts, video_stats) ==
    LET i == ClientFind(ts)
        merged == [client_history_buffer[i] EXCEPT !.video_stats = video_stats]
    IN  /\ i # 0 => Len(client_stats_history_buffer) < MaxStatsQueue
        /\ client_history_buffer' =
               IF i = 0 THEN client_history_buffer
               ELSE [client_history_buffer EXCEPT ![i] = merged]
        /\ client_stats_history_buffer' =
               IF i = 0 THEN client_stats_history_buffer
               ELSE Append(client_stats_history_buffer, merged)
        /\ client_ret' = [op |-> "report_video_statistics", ts |-> 0, found |-> i # 0,
                          record |-> NoRecord]
        /\ UNCHANGED <<client_max_history_size, client_prev_vsync,
                       client_total_pipeline_latency_average>>

client_report_frame_decoded(ts) ==
    LET i == ClientFind(ts)
        f == client_history_buffer[i]
    IN  /\ client_history_buffer' =
               IF i = 0 THEN client_history_buffer
               ELSE [client_history_buffer EXCEPT
                       ![i].video_decode = saturating_sub(now, f.video_packet_received)]
        /\ client_ret' = [op |-> "report_frame_decoded", ts |-> 0, found |-> i # 0,
                          record |-> NoRecord]
        /\ UNCHANGED <<client_max_history_size, client_prev_vsync,
                       client_total_pipeline_latency_average, client_stats_history_buffer>>

client_report_compositor_start(ts) ==
    LET i == ClientFind(ts)
        f == client_history_buffer[i]
    IN  /\ client_history_buffer' =
               IF i = 0 THEN client_history_buffer
               ELSE [client_history_buffer EXCEPT
                       ![i].video_decoder_queue =
                           saturating_sub(now, f.video_packet_received + f.video_decode)]
        /\ client_ret' = [op |-> "report_compositor_start", ts |-> 0, found |-> i # 0,
                          record |-> NoRecord]
        /\ UNCHANGED <<client_max_history_size, client_prev_vsync,
                       client_total_pipeline_latency_average, client_stats_history_buffer>>

client_report_submit(ts, vsync_queue) ==
    LET i == ClientFind(ts)
        f == client_history_buffer[i]
        total == saturating_sub(now, f.input_acquired) + vsync_queue
        vsync == now + vsync_queue
        g == [f EXCEPT
                !.rendering = saturating_sub(now, f.video_packet_received + f.video_decode
                                                    + f.video_decoder_queue),
                !.vsync_queue = vsync_queue,
                !.total_pipeline_latency = total,
                !.frame_interval = saturating_sub(vsync, client_prev_vsync)]
    IN  /\ client_history_buffer' =
               IF i = 0 THEN client_history_buffer
               ELSE [client_history_buffer EXCEPT ![i] = g]
        /\ client_total_pipeline_latency_average' =
               IF i = 0 THEN client_total_pipeline_latency_average
               ELSE swa_submit_sample(client_total_pipeline_latency_average, total,
                                      client_max_history_size)
        /\ client_prev_vsync' = IF i = 0 THEN client_prev_vsync ELSE vsync
        /\ client_ret' = [op |-> "report_submit", ts |-> 0, found |-> i # 0,
                          record |-> NoRecord]
        /\ UNCHANGED <<client_max_history_size, client_stats_history_buffer>>

client_summary(ts) ==
    LET index == position(client_stats_history_buffer, ts)
    IN  /\ client_stats_history_buffer' =
               IF index = 0 THEN client_stats_history_buffer
               ELSE remove_at(client_stats_history_buffer, index)
        /\ client_ret' =
               [op |-> "summary", ts |-> ts, found |-> index # 0,
                record |-> IF index = 0 THEN NoRecord
                           ELSE client_stats_history_buffer[index]]
        /\ UNCHANGED <<client_max_history_size, client_history_buffer, client_prev_vsync,
                       client_total_pipeline_latency_average>>

----------------------------------------------------------------------------
(* Server StatisticsManager *)

\* FULL_REPORT_INTERVAL (500 ms): one clock tick of the model is 500 ms
FULL_REPORT_INTERVAL == 1

\* usize / u32 values are kept as integers r standing for r mod 2^64 (2^32):
\* r >= 0 is the small value r, r < 0 is the value 2^64 + r left by a wrap or by
\* the cast of a negative i32.  ULt is the unsigned order on such values.
ULt(a, b) == IF (a >= 0) = (b >= 0) THEN a < b ELSE a >= 0

\* a - b on usize: the wrapped result, and whether the subtraction overflowed
usize_sub(a, b) == [v |-> a - b, overflow |-> ULt(a, b)]

\* a + b on usize: the wrapped result, and whether the addition overflowed
usize_add(a, b) ==
    [v |-> a + b,
     overflow |-> \/ a < 0 /\ b < 0
                  \/ a < 0 /\ b >= 0 /\ a + b >= 0
                  \/ b < 0 /\ a >= 0 /\ a + b >= 0]

\* frame indices the transport assigns (report_frame_sent) and the client acknowledges
MaxFrameIndex == 2
\* shards per frame are drawn from 1..MaxShards, acknowledged shard indices from 0..MaxShards-1
MaxShards == 2
FrameIndices == 0..MaxFrameIndex

Devices == {"head", "hand"}
FrameIntervals == 0..MaxNow
PipelineLatencies == {3}
Offsets == {0, 1}
\* encoder outputs: <<bytes_count, is_idr>>
EncodedFrames == { <<1, FALSE>>, <<2, TRUE>> }
NominalBitrateStatsSet == {"default", "applied"}

\* client latency reports:
\* <<total_pipeline_latency, video_decode, video_decoder_queue, rendering, vsync_queue>>
LatencyReports == { <<4, 1, 0, 0, 1>>, <<4, 0, 1, 1, 0>>, <<1, 1, 1, 1, 1>> }
\* acknowledgements: <<highest_rx_frame_index, highest_rx_shard_index, rx_shard_counter>>
ShardReports == FrameIndices \X (0..(MaxShards - 1)) \X {0, MaxShards + 1}

\* the ClientStatistics records the server is handed
ClientStatisticsSet(T, L, R) ==
    { [ target_timestamp |-> ts,
        total_pipeline_latency |-> l[1],
        video_decode |-> l[2],
        video_decoder_queue |-> l[3],
        rendering |-> l[4],
        vsync_queue |-> l[5],
        highest_rx_frame_index |-> r[1],
        highest_rx_shard_index |-> r[2],
        rx_shard_counter |-> r[3] ]
        : ts \in T, l \in L, r \in R }

\* HistoryFrame { target_timestamp, tracking_received: Instant::now(), ..Default::default() }
NewServerFrame(ts) ==
    [ target_timestamp |-> ts,
      tracking_received |-> now,
      frame_present |-> now,
      frame_composed |-> now,
      frame_encoded |-> now,
      video_packet_bytes |-> 0,
      total_pipeline_latency |-> 0,
      frame_index |-> 0,
      is_idr |-> FALSE ]

\* a lookup that settles for the newest frame
ServerFindNewest(ts) == IF Len(server_history_buffer) > 0 THEN 1 ELSE 0

\* history_buffer.iter_mut().find(|frame| frame.target_timestamp == ts)
ServerFind(ts) == position(server_history_buffer, ts)

NoReturn ==
    [op |-> "new", found |-> FALSE, network_latency |-> 0, game_time_latency |-> 0,
     shards_sent |-> 0, shard_loss_server |-> 0, summary |-> FALSE, graph |-> FALSE,
     duration |-> 0, branch |-> "none"]

Returned(op, found) == [NoReturn EXCEPT !.op = op, !.found = found]

ServerInit ==
    /\ server_max_history_size \in 1..MaxHistorySize
    /\ server_fault = "none"
    /\ server_history_buffer = <<>>
    /\ server_last_full_report_instant = 0
    /\ server_last_frame_present_instant = 0
    /\ server_last_frame_present_interval = 0
    /\ server_counters = [video_packets_total |-> 0, video_packets_partial_sum |-> 0,
                          video_bytes_total |-> 0, video_bytes_partial_sum |-> 0,
                          packets_lost_total |-> 0, packets_lost_partial_sum |-> 0]
    /\ server_battery_gauges = <<>>
    /\ server_steamvr_pipeline_latency \in PipelineLatencies
    /\ server_total_pipeline_latency_average = <<>>
    /\ server_last_vsync_time = 0
    /\ server_frame_interval \in FrameIntervals
    /\ server_last_nominal_bitrate_stats = "default"
    /\ server_map_frames_spf = <<>>
    /\ server_prev_highest_shard = -1
    /\ server_prev_highest_frame = -1
    /\ server_ret = NoReturn

server_report_tracking_received(ts) ==
    /\ server_history_buffer' =
           ring_insert(server_history_buffer, ServerFind(ts) # 0, NewServerFrame(ts),
                       server_max_history_size)
    /\ server_ret' = Returned("report_tracking_received", ServerFind(ts) # 0)
    /\ UNCHANGED <<server_present, server_counters, server_battery_gauges,
                   server_last_full_report_instant, server_last_vsync_time,
                   server_last_nominal_bitrate_stats, server_shards, server_fault>>

server_report_frame_present(ts, offset) ==
    LET i == ServerFind(ts)
        t == now - offset
    IN  /\ server_history_buffer' =
               IF i = 0 THEN server_history_buffer
               ELSE [server_history_buffer EXCEPT ![i].frame_present = t]
        /\ server_last_frame_present_interval' =
               IF i = 0 THEN server_last_frame_present_interval
               ELSE saturating_sub(t, server_last_frame_present_instant)
        /\ server_last_frame_present_instant' =
               IF i = 0 THEN server_last_frame_present_instant ELSE t
        /\ server_ret' = Returned("report_frame_present", i # 0)
        /\ UNCHANGED <<server_counters, server_battery_gauges,
                       server_last_full_report_instant, server_last_vsync_time,
                       server_last_nominal_bitrate_stats, server_shards, server_fault>>

server_report_frame_composed(ts, offset) ==
    LET i == ServerFind(ts)
    IN  /\ server_history_buffer' =
               IF i = 0 THEN server_history_buffer
               ELSE [server_history_buffer EXCEPT ![i].frame_composed = now - offset]
        /\ server_ret' = Returned("report_frame_composed", i # 0)
        /\ UNCHANGED <<server_present, server_counters, server_battery_gauges,
                       server_last_full_report_instant, server_last_vsync_time,
                       server_last_nominal_bitrate_stats, server_shards, server_fault>>

server_report_frame_encoded(ts, bytes_count, is_idr) ==
    LET i == ServerFind(ts)
        f == server_history_buffer[i]
    IN  /\ server_counters' =
               [server_counters EXCEPT
                  !.video_packets_total = @ + 1,
                  !.video_packets_partial_sum = @ + 1,
                  !.video_bytes_total = @ + bytes_count,
                  !.video_bytes_partial_sum = @ + bytes_count]
        /\ server_history_buffer' =
               IF i = 0 THEN server_history_buffer
               ELSE [server_history_buffer EXCEPT
                       ![i].frame_encoded = now,
                       ![i].video_packet_bytes = bytes_count,
                       ![i].is_idr = is_idr]
        /\ server_ret' =
               [Returned("report_frame_encoded", i # 0) EXCEPT
                  !.duration = IF i = 0 THEN 0 ELSE saturating_sub(now, f.frame_composed)]
        /\ UNCHANGED <<server_present, server_battery_gauges,
                       server_last_full_report_instant, server_last_vsync_time,
                       server_last_nominal_bitrate_stats, server_shards, server_fault>>

server_report_packet_loss ==
    /\ server_counters' =
           [server_counters EXCEPT
              !.packets_lost_total = @ + 1,
              !.packets_lost_partial_sum = @ + 1]
    /\ server_ret' = Returned("report_packet_loss", FALSE)
    /\ UNCHANGED <<server_history_buffer, server_present, server_battery_gauges,
                   server_last_full_report_instant, server_last_vsync_time,
                   server_last_nominal_bitrate_stats, server_shards, server_fault>>

\* HashMap::insert / entry().or_default() = value
map_insert(m, k, v) == [x \in DOMAIN m \cup {k} |-> IF x = k THEN v ELSE m[x]]

server_report_battery(device_id, gauge_value, is_plugged) ==
    /\ server_battery_gauges' =
           map_insert(server_battery_gauges, device_id,
                      [gauge_value |-> gauge_value, is_plugged |-> is_plugged])
    /\ server_ret' = Returned("report_battery", FALSE)
    /\ UNCHANGED <<server_history_buffer, server_present, server_counters,
                   server_last_full_report_instant, server_last_vsync_time,
                   server_last_nominal_bitrate_stats, server_shards, server_fault>>

server_report_nominal_bitrate_stats(stats) ==
    /\ server_last_nominal_bitrate_stats' = stats
    /\ server_ret' = Returned("report_nominal_bitrate_stats", FALSE)
    /\ UNCHANGED <<server_history_buffer, server_present, server_counters,
                   server_battery_gauges, server_last_full_report_instant,
                   server_last_vsync_time, server_shards, server_fault>>

server_report_frame_sent(ts, frame_sent_id, spf) ==
    LET i == ServerFind(ts)
    IN  /\ server_history_buffer' =
               IF i = 0 THEN server_history_buffer
               ELSE [server_history_buffer EXCEPT ![i].frame_index = frame_sent_id]
        /\ server_map_frames_spf' = map_insert(server_map_frames_spf, frame_sent_id, spf)
        /\ server_ret' = Returned("report_frame_sent", i # 0)
        /\ UNCHANGED <<server_present, server_counters, server_battery_gauges,
                       server_last_full_report_instant, server_last_vsync_time,
                       server_last_nominal_bitrate_stats, server_prev_highest_shard,
                       server_prev_highest_frame, server_fault>>

\* sum of the values of map m over the keys in K
RECURSIVE MapSum(_, _)
MapSum(m, K) ==
    IF K = {} THEN 0
    ELSE LET k == CHOOSE x \in K : TRUE IN m[k] + MapSum(m, K \ {k})

\* shards of the previous high-water frame counted as still to come (statistics.rs:326-329)
shards_from_prev(map, prev_frame, prev_shard) ==
    IF prev_frame \in DOMAIN map
    THEN usize_sub(map[prev_frame], prev_shard - 1)
    ELSE [v |-> 0, overflow |-> FALSE]

\* shards of the frames strictly between the two frame indices, compared as u32
\* (statistics.rs:331-333)
shards_from_inbetween_frames(map, prev_frame, rx_frame) ==
    MapSum(map, { k \in DOMAIN map : ULt(prev_frame, k) /\ ULt(k, rx_frame) })

\* mutant of frame_is_higher: any other frame index counts as higher
frame_differs(prev_frame, rx_frame) == prev_frame # rx_frame

\* self.prev_highest_frame < client_stats.highest_rx_frame_index as i32
frame_is_higher(prev_frame, rx_frame) == prev_frame < rx_frame

\* mutant of prune: the entry of the high-water frame is dropped too
prune_through(map, frame) ==
    [k \in { x \in DOMAIN map : ULt(frame, x) } |-> map[k]]

\* keys_to_drop and their removal: the entries of frames below the new high-water
\* frame, compared as u32, are dropped (statistics.rs:343-352)
prune(map, frame) ==
    [k \in { x \in DOMAIN map : ~ULt(x, frame) } |-> map[k]]

\* the shard-loss section of report_statistics (statistics.rs:313-354): the locals
\* shards_sent and shard_loss_server, the new high-water mark and map, and whether
\* a usize operation overflowed on the way
ShardAccounting(map, prev_frame, prev_shard, cs) ==
    LET rx_frame == cs.highest_rx_frame_index
        rx_shard == cs.highest_rx_shard_index
        counter == cs.rx_shard_counter
    IN  IF prev_frame = rx_frame
        THEN LET advanced == prev_shard < rx_shard
                 sent == IF advanced THEN rx_shard - prev_shard ELSE 0
                 loss == usize_sub(sent, counter)
             IN  [ branch |-> "same", shards_sent |-> sent, shard_loss_server |-> loss.v,
                   overflow |-> loss.overflow,
                   prev_frame |-> prev_frame,
                   prev_shard |-> IF advanced THEN rx_shard ELSE prev_shard,
                   \* the mark is stored before the subtraction that can panic
                   prev_shard_at_panic |-> IF advanced THEN rx_shard ELSE prev_shard,
                   map |-> map ]
        ELSE IF frame_is_higher(prev_frame, rx_frame)
        THEN LET from_prev == shards_from_prev(map, prev_frame, prev_shard)
                 inbetween == shards_from_inbetween_frames(map, prev_frame, rx_frame)
                 actual == usize_add(rx_shard, 1)
                 sum1 == usize_add(from_prev.v, inbetween)
                 sum2 == usize_add(sum1.v, actual.v)
                 loss == usize_sub(sum2.v, counter)
             IN  [ branch |-> "higher", shards_sent |-> sum2.v,
                   shard_loss_server |-> loss.v,
                   overflow |-> \/ from_prev.overflow \/ actual.overflow \/ sum1.overflow
                                \/ sum2.overflow \/ loss.overflow,
                   prev_frame |-> rx_frame,
                   prev_shard |-> rx_shard,
                   prev_shard_at_panic |-> prev_shard,
                   map |-> prune(map, rx_frame) ]
        ELSE [ branch |-> "lower", shards_sent |-> 0, shard_loss_server |-> 0,
               overflow |-> FALSE, prev_frame |-> prev_frame, prev_shard |-> prev_shard,
               prev_shard_at_panic |-> prev_shard, map |-> map ]

game_time_latency(f) == saturating_sub(f.frame_present, f.tracking_received)
server_compositor_latency(f) == saturating_sub(f.frame_composed, f.frame_present)
encoder_latency(f) == saturating_sub(f.frame_encoded, f.frame_composed)

\* network_latency with the vsync-queue term left out
network_latency_without_vsync_queue(f, cs) ==
    saturating_sub(cs.total_pipeline_latency,
                   game_time_latency(f) + server_compositor_latency(f) + encoder_latency(f)
                     + cs.video_decode + cs.video_decoder_queue + cs.rendering)

network_latency(f, cs) ==
    saturating_sub(cs.total_pipeline_latency,
                   game_time_latency(f) + server_compositor_latency(f) + encoder_latency(f)
                     + cs.video_decode + cs.video_decoder_queue + cs.rendering
                     + cs.vsync_queue)

\* a marker that is reset to the instant of the report
full_report_reset_to_now(last, t) == t

\* self.last_full_report_instant += FULL_REPORT_INTERVAL
advance_full_report(last, t) == last + FULL_REPORT_INTERVAL

server_report_statistics(cs) ==
    LET i == ServerFind(cs.target_timestamp)
        f == server_history_buffer[i]
        full_report == server_last_full_report_instant + FULL_REPORT_INTERVAL < now
        acc == ShardAccounting(server_map_frames_spf, server_prev_highest_frame,
                               server_prev_highest_shard, cs)
    IN  IF i = 0
        THEN /\ server_ret' = Returned("report_statistics", FALSE)
             /\ UNCHANGED <<server_history_buffer, server_present, server_counters,
                            server_battery_gauges, server_last_full_report_instant,
                            server_last_vsync_time, server_last_nominal_bitrate_stats,
                            server_shards, server_fault>>
        ELSE \* an overflowing usize operation panics in a build with overflow checks
             \* (debug) and wraps in one without (release)
             \E panic \in (IF acc.overflow THEN BOOLEAN ELSE {FALSE}) :
             /\ server_history_buffer' =
                    [server_history_buffer EXCEPT
                       ![i].total_pipeline_latency = cs.total_pipeline_latency]
             /\ server_last_full_report_instant' =
                    IF full_report
                    THEN advance_full_report(server_last_full_report_instant, now)
                    ELSE server_last_full_report_instant
             /\ server_counters' =
                    IF full_report
                    THEN [server_counters EXCEPT
                            !.video_packets_partial_sum = 0,
                            !.video_bytes_partial_sum = 0,
                            !.packets_lost_partial_sum = 0]
                    ELSE server_counters
             /\ server_fault' = IF panic THEN "panic" ELSE server_fault
             /\ server_prev_highest_frame' =
                    IF panic THEN server_prev_highest_frame ELSE acc.prev_frame
             /\ server_prev_highest_shard' =
                    IF panic THEN acc.prev_shard_at_panic ELSE acc.prev_shard
             /\ server_map_frames_spf' = IF panic THEN server_map_frames_spf ELSE acc.map
             /\ server_ret' =
                    IF panic
                    THEN [Returned("report_statistics", TRUE) EXCEPT !.summary = full_report]
                    ELSE [ op |-> "report_statistics", found |-> TRUE,
                           network_latency |-> network_latency(f, cs),
                           game_time_latency |-> game_time_latency(f),
                           shards_sent |-> acc.shards_sent,
                           shard_loss_server |-> acc.shard_loss_server,
                           summary |-> full_report, graph |-> TRUE, duration |-> 0,
                           branch |-> acc.branch ]
             /\ UNCHANGED <<server_present, server_battery_gauges, server_last_vsync_time,
                            server_last_nominal_bitrate_stats>>

\* the loop of duration_until_next_vsync, for a positive frame interval
\* mutant of advance_last_vsync: a late marker is set to the current time
advance_last_vsync_to_now(last, interval, t) ==
    IF last + interval < t THEN t ELSE last

RECURSIVE advance_last_vsync(_, _, _)
advance_last_vsync(last, interval, t) ==
    IF last + interval < t THEN advance_last_vsync(last + interval, interval, t) ELSE last

server_duration_until_next_vsync ==
    LET loops_forever == server_frame_interval = 0 /\ server_last_vsync_time < now
        last == advance_last_vsync(server_last_vsync_time, server_frame_interval, now)
    IN  /\ server_fault' = IF loops_forever THEN "hang" ELSE server_fault
        /\ server_last_vsync_time' = IF loops_forever THEN server_last_vsync_time ELSE last
        /\ server_ret' =
               IF loops_forever THEN Returned("duration_until_next_vsync", FALSE)
               ELSE [Returned("duration_until_next_vsync", TRUE) EXCEPT
                       !.duration = saturating_sub(last + server_frame_interval, now)]
        /\ UNCHANGED <<server_history_buffer, server_present, server_counters,
                       server_battery_gauges, server_last_full_report_instant,
                       server_last_nominal_bitrate_stats, server_shards>>

\* the average of the totals that report_statistics has stored in the ring's frames
video_pipeline_latency_of_frames ==
    IF Len(server_history_buffer) = 0 THEN 0
    ELSE SeqSum([i \in 1..Len(server_history_buffer) |->
                    server_history_buffer[i].total_pipeline_latency])
            \div Len(server_history_buffer)

video_pipeline_latency_average == swa_get_average(server_total_pipeline_latency_average, 0)

tracker_pose_time_offset ==
    saturating_sub(server_steamvr_pipeline_latency, video_pipeline_latency_average)

----------------------------------------------------------------------------
(* BitrateManager                                                          *)
(*                                                                         *)
(* Units: Instants are clock ticks; Durations are milliseconds (a tick is  *)
(* FULL_REPORT_INTERVAL = 500 ms long).  Bit rates are in units of         *)
(* 1000 bit/s, so the code's  mbps * 1e6  is  mbps * 1000  here and        *)
(* bits / seconds  is  bits / milliseconds.  The f32 multipliers of the    *)
(* configuration are carried in hundredths (150 stands for 1.5); random    *)
(* draws likewise.                                                         *)

\* Duration::from_millis(16), Duration::from_millis(5), 300E6 bit/s: what the
\* averages are constructed with
FRAME_INTERVAL_SEED == 16
LATENCY_SEED == 5
PEAK_THROUGHPUT_SEED == 300000
\* f32::MAX, above every bit rate of the model; +inf and NaN follow it
F32_MAX == 2000000000
F32_INFINITY == F32_MAX + 1
F32_NAN == F32_MAX + 2
UPDATE_INTERVAL == 1000
\* frame_interval_average.retain(5)
RETAINED_SAMPLES == 5

\* (now - instant) as a Duration
as_millis(ticks) == ticks * (500 \div FULL_REPORT_INTERVAL)

mbps_to_bps(mbps) == mbps * 1000

\* x * m for a multiplier m in hundredths
times(x, m) == (x * m) \div 100

\* f32 as u64: negative values and NaN saturate to 0
as_u64(x) == IF x < 0 \/ x = F32_NAN THEN 0 ELSE x

\* SlidingWindowAverage::retain
swa_retain(avg, count) ==
    SubSeq(avg, Len(avg) - Min(Len(avg), count) + 1, Len(avg))

\* settings_schema::Switch
Enabled(content) == [enabled |-> TRUE, content |-> content]
Disabled == [enabled |-> FALSE]

\* Option
Some(v) == <<v>>
None == <<>>

\* BitrateMode
ConstantMbps(bitrate_mbps) == [kind |-> "ConstantMbps", bitrate_mbps |-> bitrate_mbps]

SimpleHeuristic(max, min, steps, capacity, threshold_u, fps_mult, rtt_mult, interval) ==
    [kind |-> "SimpleHeuristic",
     max_bitrate_mbps |-> max,
     min_bitrate_mbps |-> min,
     steps_mbps |-> steps,
     capacity_multiplier |-> capacity,
     threshold_random_uniform |-> threshold_u,
     fps_threshold_multiplier |-> fps_mult,
     multiplier_rtt_threshold |-> rtt_mult,
     update_interval_heuristic |-> interval]

Adaptive(saturation, max, min, max_network_latency, encoder_limiter, decoder_limiter) ==
    [kind |-> "Adaptive",
     saturation_multiplier |-> saturation,
     max_bitrate_mbps |-> max,
     min_bitrate_mbps |-> min,
     max_network_latency_ms |-> max_network_latency,
     encoder_latency_limiter |-> encoder_limiter,
     decoder_latency_limiter |-> decoder_limiter]

EncoderLatencyLimiter(max_saturation) == [max_saturation_multiplier |-> max_saturation]

DecoderLatencyLimiter(max_ms, frames, multiplier) ==
    [max_decoder_latency_ms |-> max_ms,
     latency_overstep_frames |-> frames,
     latency_overstep_multiplier |-> multiplier]

\* BitrateConfig
BitrateConfig(mode, adapt_to_framerate) ==
    [mode |-> mode, adapt_to_framerate |-> adapt_to_framerate]

AdaptiveFramerate(multiplier) == Enabled([framerate_reset_threshold_multiplier |-> multiplier])

\* HeuristicStats::default(); server_fps, network_heur_fps and threshold_fps are the
\* reciprocals of frame_interval and frame_interarrival, which the record keeps instead
DefaultHeuristicStats ==
    [frame_interval |-> 0, frame_interarrival |-> 0, steps_bps |-> 0, rtt_avg_heur |-> 0,
     random_prob |-> 0, fps_threshold_multiplier |-> 0, threshold_rtt |-> 0,
     threshold_u |-> 0, requested_bitrate_bps |-> 0]

\* NominalBitrateStats::default()
DefaultNominalBitrateStats ==
    [scaled_calculated_bps |-> None, decoder_latency_limiter_bps |-> None,
     network_latency_limiter_bps |-> None, encoder_latency_limiter_bps |-> None,
     manual_max_bps |-> None, manual_min_bps |-> None, requested_bps |-> 0]

\* the three conditions of the gate of get_encoder_params, as a call found them
NoGate == [config_changed |-> FALSE, update_needed |-> FALSE, interval_pending |-> FALSE]

\* what a call returned; stages are the successive values of the local bitrate_bps
BitrateReturned(op) ==
    [op |-> op, config |-> None, gate |-> NoGate, updated |-> 0, bitrate_bps |-> 0,
     framerate |-> 0, stats |-> None, stages |-> <<>>, heur |-> None]

\* BitrateManager::new(max_history_size, initial_framerate, initial_bitrate), with the
\* frame interval 1 / initial_framerate in place of the framerate
BitrateInit(max_history_size, frame_interval, initial_bitrate) ==
    /\ bitrate_max_history_size = max_history_size
    /\ bitrate_initial_bitrate = mbps_to_bps(initial_bitrate)
    /\ bitrate_nominal_frame_interval = frame_interval
    /\ bitrate_frame_interval_average = <<>>
    /\ bitrate_packet_sizes_bits_history = <<>>
    /\ bitrate_encoder_latency_average = <<>>
    /\ bitrate_network_latency_average = <<>>
    /\ bitrate_bitrate_average = <<>>
    /\ bitrate_decoder_latency_overstep_count = 0
    /\ bitrate_last_frame_instant = 0
    /\ bitrate_last_update_instant = 0
    /\ bitrate_dynamic_max_bitrate = F32_MAX
    /\ bitrate_previous_config = None
    /\ bitrate_update_needed = TRUE
    /\ bitrate_last_target_bitrate = mbps_to_bps(initial_bitrate)
    /\ bitrate_frame_interarrival_average = <<>>
    /\ bitrate_rtt_average = <<>>
    /\ bitrate_update_interval_setting = UPDATE_INTERVAL
    /\ bitrate_heur_stats = DefaultHeuristicStats
    /\ bitrate_peak_throughput_average = <<>>
    /\ bitrate_ret = BitrateReturned("new")

\* the averages' current values
frame_interval_average == swa_get_average(bitrate_frame_interval_average, FRAME_INTERVAL_SEED)
encoder_latency_average == swa_get_average(bitrate_encoder_latency_average, LATENCY_SEED)
network_latency_average == swa_get_average(bitrate_network_latency_average, LATENCY_SEED)
bitrate_average == swa_get_average(bitrate_bitrate_average, bitrate_initial_bitrate)
frame_interarrival_average ==
    swa_get_average(bitrate_frame_interarrival_average, bitrate_nominal_frame_interval)
rtt_average == swa_get_average(bitrate_rtt_average, LATENCY_SEED)
peak_throughput_average ==
    swa_get_average(bitrate_peak_throughput_average, PEAK_THROUGHPUT_SEED)

\* the test without its lower bound
interval_ratio_above_only(interval, average, multiplier) ==
    100 * interval > multiplier * average

\* interval / average > multiplier, or < 1 / multiplier, in f32: a zero average makes
\* the ratio +inf (NaN when the interval is zero too)
interval_ratio_out_of_band(interval, average, multiplier) ==
    \/ 100 * interval > multiplier * average
    \/ average > 0 /\ interval * multiplier < 100 * average

bitrate_report_frame_present(config) ==
    LET interval == as_millis(now - bitrate_last_frame_instant)
        submitted == swa_submit_sample(bitrate_frame_interval_average, interval,
                                       bitrate_max_history_size)
        average == swa_get_average(submitted, FRAME_INTERVAL_SEED)
        reset == /\ config.enabled
                 /\ interval_ratio_out_of_band(interval, average,
                        config.content.framerate_reset_threshold_multiplier)
    IN  /\ bitrate_last_frame_instant' = now
        /\ bitrate_frame_interval_average' =
              IF reset THEN swa_retain(submitted, RETAINED_SAMPLES) ELSE submitted
        /\ bitrate_update_needed' = (reset \/ bitrate_update_needed)
        /\ bitrate_ret' = BitrateReturned("report_frame_present")
        /\ UNCHANGED <<bitrate_queue, bitrate_latencies, bitrate_gate, bitrate_network,
                       bitrate_last_target_bitrate, bitrate_heur_stats>>

bitrate_report_frame_encoded(timestamp, encoder_latency_, size_bytes) ==
    /\ bitrate_encoder_latency_average' =
          swa_submit_sample(bitrate_encoder_latency_average, encoder_latency_,
                            bitrate_max_history_size)
    /\ bitrate_packet_sizes_bits_history' =
          Append(bitrate_packet_sizes_bits_history, <<timestamp, size_bytes * 8>>)
    /\ bitrate_ret' = BitrateReturned("report_frame_encoded")
    /\ UNCHANGED <<bitrate_frames, bitrate_network_latency_average, bitrate_bitrate_average,
                   bitrate_decoder_latency_overstep_count, bitrate_dynamic_max_bitrate,
                   bitrate_update_needed, bitrate_gate, bitrate_network,
                   bitrate_last_target_bitrate, bitrate_heur_stats>>

bitrate_report_network_stats(network_rtt, peak_throughput, frame_interarrival) ==
    /\ bitrate_rtt_average' =
          swa_submit_sample(bitrate_rtt_average, network_rtt, bitrate_max_history_size)
    /\ bitrate_peak_throughput_average' =
          swa_submit_sample(bitrate_peak_throughput_average, peak_throughput,
                            bitrate_max_history_size)
    /\ bitrate_frame_interarrival_average' =
          swa_submit_sample(bitrate_frame_interarrival_average, frame_interarrival,
                            bitrate_max_history_size)
    /\ bitrate_ret' = [BitrateReturned("report_network_stats")
                         EXCEPT !.heur = Some(bitrate_heur_stats)]
    /\ UNCHANGED <<bitrate_frames, bitrate_queue, bitrate_latencies, bitrate_update_needed,
                   bitrate_gate, bitrate_last_target_bitrate, bitrate_heur_stats>>

\* mutant of drain: at most the front entry is removed
drain_front_only(queue, timestamp) ==
    IF Len(queue) = 0
    THEN [queue |-> queue, matched |-> FALSE, size_bits |-> 0]
    ELSE [queue |-> Tail(queue), matched |-> Head(queue)[1] = timestamp,
          size_bits |-> Head(queue)[2]]

\* the while loop of report_frame_latencies over the front of the queue
RECURSIVE drain(_, _)
drain(queue, timestamp) ==
    IF Len(queue) = 0
    THEN [queue |-> queue, matched |-> FALSE, size_bits |-> 0]
    ELSE IF Head(queue)[1] = timestamp
         THEN [queue |-> Tail(queue), matched |-> TRUE, size_bits |-> Head(queue)[2]]
         ELSE drain(Tail(queue), timestamp)

\* mutant of is_zero: no duration is taken for zero
is_zero_never(duration) == FALSE

\* Duration::is_zero
is_zero(duration) == duration = 0

\* size_bits as f32 / network_latency.as_secs_f32(): +inf for a zero latency
achieved_bitrate(size_bits, network_latency_) ==
    IF network_latency_ = 0 THEN F32_INFINITY ELSE size_bits \div network_latency_

bitrate_report_frame_latencies(mode, timestamp, network_latency_, decoder_latency) ==
    /\ bitrate_ret' = BitrateReturned("report_frame_latencies")
    /\ UNCHANGED <<bitrate_frames, bitrate_encoder_latency_average, bitrate_gate,
                   bitrate_network, bitrate_last_target_bitrate, bitrate_heur_stats>>
    /\ IF is_zero(network_latency_)
       THEN UNCHANGED <<bitrate_network_latency_average, bitrate_packet_sizes_bits_history,
                        bitrate_bitrate_average, bitrate_decoder_latency_overstep_count,
                        bitrate_dynamic_max_bitrate, bitrate_update_needed>>
       ELSE LET drained == drain(bitrate_packet_sizes_bits_history, timestamp)
                samples == IF drained.matched
                           THEN swa_submit_sample(bitrate_bitrate_average,
                                    achieved_bitrate(drained.size_bits, network_latency_),
                                    bitrate_max_history_size)
                           ELSE bitrate_bitrate_average
                limiter == mode.kind = "Adaptive" /\ mode.decoder_latency_limiter.enabled
                config == mode.decoder_latency_limiter.content
                overstep == limiter /\ decoder_latency > config.max_decoder_latency_ms
                count == bitrate_decoder_latency_overstep_count + 1
                trigger == overstep /\ count = config.latency_overstep_frames
            IN  /\ bitrate_network_latency_average' =
                      swa_submit_sample(bitrate_network_latency_average, network_latency_,
                                        bitrate_max_history_size)
                /\ bitrate_packet_sizes_bits_history' = drained.queue
                /\ bitrate_bitrate_average' = samples
                /\ bitrate_decoder_latency_overstep_count' =
                      IF ~limiter THEN bitrate_decoder_latency_overstep_count
                      ELSE IF overstep /\ ~trigger THEN count
                      ELSE 0
                /\ bitrate_dynamic_max_bitrate' =
                      IF trigger
                      THEN times(Min(swa_get_average(samples, bitrate_initial_bitrate),
                                     bitrate_dynamic_max_bitrate),
                                 config.latency_overstep_multiplier)
                      ELSE bitrate_dynamic_max_bitrate
                /\ bitrate_update_needed' = (trigger \/ bitrate_update_needed)

\* alvr_events::send_event only
bitrate_report_heuristic_event(heur) ==
    /\ bitrate_ret' = [BitrateReturned("report_heuristic_event") EXCEPT !.heur = Some(heur)]
    /\ UNCHANGED <<bitrate_frames, bitrate_queue, bitrate_latencies, bitrate_update_needed,
                   bitrate_gate, bitrate_network, bitrate_last_target_bitrate,
                   bitrate_heur_stats>>

\* a rounding that keeps the value
round_keeps_value(value, step) == value

\* fn round_down_to_nearest_multiple: (value / step).floor() * step
round_down_to_nearest_multiple(value, step) == (value \div step) * step

\* fn minmax_bitrate
minmax_bitrate(bitrate_bps, max_bitrate_mbps, min_bitrate_mbps) ==
    LET capped == IF max_bitrate_mbps.enabled
                  THEN Min(bitrate_bps, mbps_to_bps(max_bitrate_mbps.content))
                  ELSE bitrate_bps
    IN  IF min_bitrate_mbps.enabled
        THEN Max(capped, mbps_to_bps(min_bitrate_mbps.content))
        ELSE capped

\* Some(max * 1e6) of an enabled bound
manual_bps(bound) == IF bound.enabled THEN Some(mbps_to_bps(bound.content)) ELSE None

\* fps_heur >= threshold_fps, with fps_heur = 1 / frame_interarrival and
\* threshold_fps = multiplier * 1 / min(frame_interval, 1 s); inf >= inf holds, and
\* nothing is >= NaN (0 * inf)
fps_at_threshold(frame_interarrival, frame_interval, multiplier) ==
    /\ ~(frame_interval = 0 /\ multiplier = 0)
    /\ 100 * Min(frame_interval, 1000) >= multiplier * frame_interarrival

\* mutant of rtt_above_threshold: the RTT average is never above its threshold
rtt_never_above(rtt, frame_interval, multiplier) == FALSE

\* rtt_avg_heur > threshold_rtt, with threshold_rtt = frame_interval * multiplier
rtt_above_threshold(rtt, frame_interval, multiplier) ==
    100 * rtt > frame_interval * multiplier

\* the SimpleHeuristic arm of get_encoder_params: the successive values of bitrate_bps
\* (previous target, after the step decision, after minmax_bitrate, after the capacity
\* limit and the rounding), and the thresholds
simple_heuristic(mode, random_prob) ==
    LET initial_bitrate == bitrate_last_target_bitrate
        frame_interval == frame_interval_average
        steps_bps == mbps_to_bps(mode.steps_mbps)
        stepped ==
            IF fps_at_threshold(frame_interarrival_average, frame_interval,
                                mode.fps_threshold_multiplier)
            THEN IF rtt_above_threshold(rtt_average, frame_interval,
                                        mode.multiplier_rtt_threshold)
                 THEN IF random_prob >= mode.threshold_random_uniform
                      THEN initial_bitrate - steps_bps
                      ELSE initial_bitrate
                 ELSE IF random_prob <= mode.threshold_random_uniform
                      THEN initial_bitrate + steps_bps
                      ELSE initial_bitrate
            ELSE initial_bitrate - steps_bps
        bounded == minmax_bitrate(stepped, mode.max_bitrate_mbps, mode.min_bitrate_mbps)
        limit == times(peak_throughput_average, mode.capacity_multiplier)
        rounded == round_down_to_nearest_multiple(Min(bounded, limit), steps_bps)
    IN  [bitrate_bps |-> rounded,
         stages |-> <<initial_bitrate, stepped, bounded, rounded>>,
         limit |-> limit,
         heur_stats |->
            [frame_interval |-> frame_interval,
             frame_interarrival |-> frame_interarrival_average,
             steps_bps |-> steps_bps,
             rtt_avg_heur |-> rtt_average,
             random_prob |-> random_prob,
             fps_threshold_multiplier |-> mode.fps_threshold_multiplier,
             threshold_rtt |-> frame_interval * mode.multiplier_rtt_threshold,
             threshold_u |-> mode.threshold_random_uniform,
             requested_bitrate_bps |-> rounded],
         stats |-> [DefaultNominalBitrateStats EXCEPT
                      !.manual_max_bps = manual_bps(mode.max_bitrate_mbps),
                      !.manual_min_bps = manual_bps(mode.min_bitrate_mbps)]]

\* a minimum bound that never raises
adaptive_never_raises(bitrate_bps, min_bitrate_mbps) == bitrate_bps

\* the configured minimum of the Adaptive arm: f32::max(bitrate_bps, min)
adaptive_min_bound(bitrate_bps, min_bitrate_mbps) ==
    IF min_bitrate_mbps.enabled
    THEN Max(bitrate_bps, mbps_to_bps(min_bitrate_mbps.content))
    ELSE bitrate_bps

\* the encoder-latency ceiling  average * max_saturation_multiplier / saturation  with
\* saturation = encoder latency average / nominal frame interval
encoder_latency_limit(average, max_saturation, encoder_latency_) ==
    IF encoder_latency_ = 0
    THEN IF average * max_saturation = 0 THEN F32_NAN ELSE F32_INFINITY
    ELSE (average * max_saturation * bitrate_nominal_frame_interval)
            \div (100 * encoder_latency_)

\* the Adaptive arm of get_encoder_params: the successive values of bitrate_bps
\* (scaled average, after the dynamic ceiling, the network-latency ceiling, the
\* encoder-latency ceiling, the configured maximum, the configured minimum)
adaptive(mode) ==
    LET initial_bitrate_average_bps == bitrate_average
        scaled == times(initial_bitrate_average_bps, mode.saturation_multiplier)
        decoder == Min(scaled, bitrate_dynamic_max_bitrate)
        network_max == (initial_bitrate_average_bps * mode.max_network_latency_ms.content)
                          \div network_latency_average
        network == IF mode.max_network_latency_ms.enabled
                   THEN Min(decoder, network_max)
                   ELSE decoder
        max_saturation == mode.encoder_latency_limiter.content.max_saturation_multiplier
        encoder_max == encoder_latency_limit(initial_bitrate_average_bps, max_saturation,
                                             encoder_latency_average)
        saturated == /\ mode.encoder_latency_limiter.enabled
                     /\ 100 * encoder_latency_average
                           > max_saturation * bitrate_nominal_frame_interval
        encoder == IF saturated THEN Min(network, encoder_max) ELSE network
        capped == IF mode.max_bitrate_mbps.enabled
                  THEN Min(encoder, mbps_to_bps(mode.max_bitrate_mbps.content))
                  ELSE encoder
        floored == adaptive_min_bound(capped, mode.min_bitrate_mbps)
    IN  [bitrate_bps |-> floored,
         stages |-> <<scaled, decoder, network, encoder, capped, floored>>,
         stats |->
            [scaled_calculated_bps |-> Some(scaled),
             decoder_latency_limiter_bps |-> Some(bitrate_dynamic_max_bitrate),
             network_latency_limiter_bps |->
                IF mode.max_network_latency_ms.enabled THEN Some(network_max) ELSE None,
             encoder_latency_limiter_bps |->
                IF mode.encoder_latency_limiter.enabled THEN Some(encoder_max) ELSE None,
             manual_max_bps |-> manual_bps(mode.max_bitrate_mbps),
             manual_min_bps |-> manual_bps(mode.min_bitrate_mbps),
             requested_bps |-> 0]]

\* 1.0 / frame_interval.as_secs_f32().min(1.0), in 1/1000 Hz
framerate(frame_interval) ==
    IF frame_interval = 0 THEN F32_INFINITY ELSE 1000000 \div Min(frame_interval, 1000)

\* config != prev, or no previous configuration
config_changed(config) == bitrate_previous_config # Some(config)

\* mutant of interval_pending: the interval is still pending at the instant it ends
interval_pending_inclusive(config, update_interval_setting) ==
    \/ as_millis(now) <= as_millis(bitrate_last_update_instant) + update_interval_setting
    \/ config.mode.kind = "ConstantMbps"

interval_pending(config, update_interval_setting) ==
    \/ as_millis(now) < as_millis(bitrate_last_update_instant) + update_interval_setting
    \/ config.mode.kind = "ConstantMbps"

\* a gate that does not look at the configuration
gate_ignores_config_change(config, update_interval_setting) ==
    /\ ~bitrate_update_needed
    /\ interval_pending(config, update_interval_setting)

\* a gate that treats constant mode like the others
gate_ignores_mode(config, update_interval_setting) ==
    /\ ~config_changed(config)
    /\ ~bitrate_update_needed
    /\ as_millis(now) < as_millis(bitrate_last_update_instant) + update_interval_setting

\* a gate that does not look at the update-needed flag
gate_ignores_flag(config, update_interval_setting) ==
    /\ ~config_changed(config)
    /\ interval_pending(config, update_interval_setting)

\* the gate of get_encoder_params: TRUE when the call returns the no-update result
no_update(config, update_interval_setting) ==
    /\ ~config_changed(config)
    /\ ~bitrate_update_needed
    /\ interval_pending(config, update_interval_setting)

bitrate_get_encoder_params(config, random_prob) ==
    LET mode == config.mode
        update_interval_setting ==
            IF mode.kind = "SimpleHeuristic"
            THEN mode.update_interval_heuristic
            ELSE UPDATE_INTERVAL
        skip == no_update(config, update_interval_setting)
        gate == [config_changed |-> config_changed(config),
                 update_needed |-> bitrate_update_needed,
                 interval_pending |-> interval_pending(config, update_interval_setting)]
        computed ==
            CASE mode.kind = "ConstantMbps" ->
                    [bitrate_bps |-> mbps_to_bps(mode.bitrate_mbps),
                     stages |-> <<mbps_to_bps(mode.bitrate_mbps)>>,
                     stats |-> DefaultNominalBitrateStats]
              [] mode.kind = "SimpleHeuristic" -> simple_heuristic(mode, random_prob)
              [] mode.kind = "Adaptive" -> adaptive(mode)
        frame_interval ==
            IF config.adapt_to_framerate.enabled
            THEN frame_interval_average
            ELSE bitrate_nominal_frame_interval
    IN  /\ bitrate_update_interval_setting' = update_interval_setting
        /\ bitrate_previous_config' =
              IF config_changed(config) THEN Some(config) ELSE bitrate_previous_config
        /\ bitrate_last_update_instant' = IF skip THEN bitrate_last_update_instant ELSE now
        /\ bitrate_update_needed' = IF skip THEN bitrate_update_needed ELSE FALSE
        /\ bitrate_heur_stats' =
              IF ~skip /\ mode.kind = "SimpleHeuristic"
              THEN computed.heur_stats
              ELSE bitrate_heur_stats
        /\ bitrate_last_target_bitrate' =
              IF skip THEN bitrate_last_target_bitrate ELSE computed.bitrate_bps
        /\ bitrate_ret' =
              IF skip
              THEN [BitrateReturned("get_encoder_params") EXCEPT
                      !.config = Some(config), !.gate = gate]
              ELSE [BitrateReturned("get_encoder_params") EXCEPT
                      !.config = Some(config),
                      !.gate = gate,
                      !.updated = 1,
                      !.bitrate_bps = as_u64(computed.bitrate_bps),
                      !.framerate = framerate(frame_interval),
                      !.stats = Some([computed.stats EXCEPT
                                        !.requested_bps = computed.bitrate_bps]),
                      !.stages = computed.stages]
        /\ UNCHANGED <<bitrate_frames, bitrate_queue, bitrate_latencies, bitrate_network>>

----------------------------------------------------------------------------
(* The clock, and the specifications *)

\* one call on the driven object: the clock does not move during a call
Call(budget) ==
    /\ calls < budget
    /\ calls' = calls + 1
    /\ UNCHANGED <<driven, now>>

ClientCall(budget, A) ==
    /\ driven = "client"
    /\ Call(budget)
    /\ A
    /\ UNCHANGED <<server_vars, bitrate_vars>>

\* a call that panicked or hangs is the last one
ServerCall(budget, A) ==
    /\ driven = "server"
    /\ server_fault = "none"
    /\ Call(budget)
    /\ A
    /\ UNCHANGED <<server_params, client_vars, bitrate_vars>>

BitrateCall(A) ==
    /\ driven = "bitrate"
    /\ Call(MaxBitrateCalls)
    /\ A
    /\ UNCHANGED <<bitrate_params, client_vars, server_vars>>

BitratePresentCall(A) ==
    /\ driven = "bitrate"
    /\ Call(MaxPresentCalls)
    /\ A
    /\ UNCHANGED <<bitrate_params, client_vars, server_vars>>

TickTo(limit) ==
    /\ now < limit
    /\ now' = now + 1
    /\ UNCHANGED <<driven, calls, client_vars, server_vars, bitrate_vars>>

Tick == TickTo(MaxNow)

\* every operation of the client tracker, with arguments from the sets of In
NextClient(In) ==
    \/ \E ts \in In.created : ClientCall(In.calls, client_report_input_acquired(ts))
    \/ \E ts \in In.ts : ClientCall(In.calls, client_report_video_packet_received(ts))
    \/ \E ts \in In.ts, vs \in In.video_stats :
          ClientCall(In.calls, client_report_video_statistics(ts, vs))
    \/ \E ts \in In.ts : ClientCall(In.calls, client_report_frame_decoded(ts))
    \/ \E ts \in In.ts : ClientCall(In.calls, client_report_compositor_start(ts))
    \/ \E ts \in In.ts, q \in In.vsync_queue : ClientCall(In.calls, client_report_submit(ts, q))
    \/ \E ts \in In.ts : ClientCall(In.calls, client_summary(ts))

\* every operation of the server tracker, with arguments from the sets of In
NextServer(In) ==
    \/ \E ts \in In.created : ServerCall(In.calls, server_report_tracking_received(ts))
    \/ \E ts \in In.ts, offset \in In.offsets :
          ServerCall(In.calls, server_report_frame_present(ts, offset))
    \/ \E ts \in In.ts, offset \in In.offsets :
          ServerCall(In.calls, server_report_frame_composed(ts, offset))
    \/ \E ts \in In.ts, e \in In.encoded :
          ServerCall(In.calls, server_report_frame_encoded(ts, e[1], e[2]))
    \/ ServerCall(In.calls, server_report_packet_loss)
    \/ \E d \in In.devices : ServerCall(In.calls, server_report_battery(d, 1, TRUE))
    \/ \E st \in In.nominal : ServerCall(In.calls, server_report_nominal_bitrate_stats(st))
    \/ \E ts \in In.ts, fi \in In.frames, spf \in In.spf :
          ServerCall(In.calls, server_report_frame_sent(ts, fi, spf))
    \/ \E cs \in ClientStatisticsSet(In.ts, In.latencies, In.shards) :
          ServerCall(In.calls, server_report_statistics(cs))
    \/ ServerCall(In.calls, server_duration_until_next_vsync)

\* every operation of the bitrate controller, with arguments from the sets of In; the
\* callers pass the adapt_to_framerate switch and the mode of the session's configuration
NextBitrate(In) ==
    \/ \E c \in In.configs : BitrateCall(bitrate_report_frame_present(c.adapt_to_framerate))
    \/ \E ts \in In.ts, e \in In.encoded :
          BitrateCall(bitrate_report_frame_encoded(ts, e[1], e[2]))
    \/ \E n \in In.network : BitrateCall(bitrate_report_network_stats(n[1], n[2], n[3]))
    \/ \E c \in In.configs, ts \in In.ts, l \in In.latencies :
          BitrateCall(bitrate_report_frame_latencies(c.mode, ts, l[1], l[2]))
    \/ BitrateCall(bitrate_report_heuristic_event(bitrate_heur_stats))
    \/ \E c \in In.configs, r \in In.random :
          BitrateCall(bitrate_get_encoder_params(c, r))

\* argument sets (calls is the number of calls of a behaviour, created the frames of the
\* creation call, ts the frames of the other calls): every frame identifier is created,
\* the reports are for frame 1, with one value of everything else
ClientRingInputs ==
    [calls |-> MaxRingCalls, created |-> Timestamps, ts |-> {1},
     video_stats |-> {DefaultVideoStats}, vsync_queue |-> {1}]

\* argument sets: two frames, every payload and vsync-queue duration
ClientQueueInputs ==
    [calls |-> MaxClientCalls, created |-> 1..2, ts |-> 1..2,
     video_stats |-> VideoStatsRxSet, vsync_queue |-> {0, 1}]

\* argument sets of the completed-record queue: two frames and both payloads, with one
\* value of everything else
ClientRetentionInputs ==
    [calls |-> MaxClientCalls, created |-> 1..2, ts |-> 1..2,
     video_stats |-> VideoStatsRxSet, vsync_queue |-> {0}]

ServerRingInputs ==
    [calls |-> MaxRingCalls, created |-> Timestamps, ts |-> {1}, offsets |-> {0},
     encoded |-> {<<2, TRUE>>}, devices |-> {"head"},
     nominal |-> {"applied"}, frames |-> {0}, spf |-> {1},
     latencies |-> {<<4, 1, 0, 0, 1>>}, shards |-> {<<0, 0, 0>>}]

\* argument sets: two frames created, every offset and latency report for frame 1, one
\* acknowledgement
ServerLatencyInputs ==
    [calls |-> MaxServerCalls, created |-> 1..2, ts |-> {1}, offsets |-> Offsets,
     encoded |-> EncodedFrames, devices |-> {"head"},
     nominal |-> {"applied"}, frames |-> {0}, spf |-> {1},
     latencies |-> LatencyReports, shards |-> {<<0, 0, 0>>}]

\* argument sets: one frame, every frame index, shard count and acknowledgement
ServerShardInputs ==
    [calls |-> MaxServerCalls, created |-> {1}, ts |-> {1}, offsets |-> {0},
     encoded |-> {<<2, TRUE>>}, devices |-> {"head"},
     nominal |-> {"applied"}, frames |-> FrameIndices, spf |-> 1..MaxShards,
     latencies |-> {<<4, 1, 0, 0, 1>>}, shards |-> ShardReports]

\* argument sets of the vsync runs: one frame, so that the clock and the frame
\* interval are what varies
ServerVsyncInputs ==
    [calls |-> MaxServerCalls, created |-> {1}, ts |-> {1}, offsets |-> {0},
     encoded |-> {<<2, TRUE>>}, devices |-> {"head"},
     nominal |-> {"applied"}, frames |-> {0}, spf |-> {1},
     latencies |-> {<<4, 1, 0, 0, 1>>}, shards |-> {<<0, 0, 0>>}]

\* the vsync runs last long enough for the longest interval to elapse twice
MaxVsyncNow == 2 * MaxNow

\* argument sets of the high-water mark: one frame in the ring, every frame index sent
\* with one shard, every frame and shard index acknowledged
ServerMarkInputs ==
    [calls |-> MaxServerCalls, created |-> {1}, ts |-> {1}, offsets |-> {0},
     encoded |-> {<<2, TRUE>>}, devices |-> {"head"},
     nominal |-> {"applied"}, frames |-> FrameIndices, spf |-> {1},
     latencies |-> {<<4, 1, 0, 0, 1>>},
     shards |-> FrameIndices \X (0..(MaxShards - 1)) \X {0}]

\* configurations of the gate: two constant bit rates, an adaptive one whose decoder
\* limiter triggers on the first overstep, a heuristic one updating every 500 ms
GatingConfigs ==
    { BitrateConfig(ConstantMbps(30), Disabled),
      BitrateConfig(ConstantMbps(20), AdaptiveFramerate(200)),
      BitrateConfig(Adaptive(100, Disabled, Disabled, Disabled, Disabled,
                             Enabled(DecoderLatencyLimiter(10, 1, 50))), Disabled),
      BitrateConfig(SimpleHeuristic(Disabled, Disabled, 1, 100, 50, 100, 100, 500),
                    Disabled) }

\* adaptive configurations: every ceiling enabled with a minimum of 18 Mbit/s, a scaled
\* start with only a minimum of 50 Mbit/s, the ceilings without a minimum
AdaptiveConfigs ==
    { BitrateConfig(Adaptive(100, Enabled(20), Enabled(18), Enabled(8),
                             Enabled(EncoderLatencyLimiter(50)),
                             Enabled(DecoderLatencyLimiter(10, 1, 50))), Disabled),
      BitrateConfig(Adaptive(150, Disabled, Enabled(50), Disabled, Disabled, Disabled),
                    Disabled),
      BitrateConfig(Adaptive(100, Enabled(20), Disabled, Enabled(8),
                             Enabled(EncoderLatencyLimiter(50)), Disabled),
                    AdaptiveFramerate(200)) }

\* heuristic configurations: steps of 3, 7 and 4 Mbit/s, bounds on and off, a minimum
\* above what the capacity estimate can be
HeuristicConfigs ==
    { BitrateConfig(SimpleHeuristic(Enabled(40), Enabled(10), 3, 100, 50, 100, 100, 500),
                    Disabled),
      BitrateConfig(SimpleHeuristic(Disabled, Disabled, 7, 50, 50, 100, 100, 500),
                    AdaptiveFramerate(200)),
      BitrateConfig(SimpleHeuristic(Disabled, Enabled(25), 4, 100, 50, 100, 300, 1000),
                    Disabled) }

\* argument sets: <<encoder latency, size in bytes>>, <<rtt, peak throughput, frame
\* inter-arrival>>, <<network latency, decoder latency>>, random draws
BitrateGatingInputs ==
    [configs |-> GatingConfigs, ts |-> {1}, encoded |-> {<<11, 1000>>},
     network |-> {<<5, 20000, 11>>}, latencies |-> {<<16, 20>>}, random |-> {50}]

BitrateAdaptiveInputs ==
    [configs |-> AdaptiveConfigs, ts |-> 1..2, encoded |-> {<<11, 1000>>, <<2, 60000>>},
     network |-> {<<5, 20000, 11>>}, latencies |-> {<<16, 20>>, <<4, 5>>, <<0, 20>>},
     random |-> {50}]

BitrateHeuristicInputs ==
    [configs |-> HeuristicConfigs, ts |-> {1}, encoded |-> {<<11, 1000>>},
     network |-> {<<5, 20000, 11>>, <<40, 35500, 30>>}, latencies |-> {<<16, 20>>},
     random |-> {0, 50, 99}]

\* configurations of the step decision: steps of 7 Mbit/s without bounds, steps of
\* 3 Mbit/s between 10 and 40 Mbit/s
StepConfigs ==
    { BitrateConfig(SimpleHeuristic(Disabled, Disabled, 7, 50, 50, 100, 100, 500),
                    AdaptiveFramerate(200)),
      BitrateConfig(SimpleHeuristic(Enabled(40), Enabled(10), 3, 100, 50, 100, 100, 500),
                    Disabled) }

\* argument sets of the step decision: a round trip longer than the seeded frame
\* interval, and a random draw below, at and above the probability threshold
BitrateStepInputs ==
    [configs |-> StepConfigs, ts |-> {1}, encoded |-> {<<11, 1000>>},
     network |-> {<<40, 35500, 11>>}, latencies |-> {<<16, 20>>},
     random |-> {0, 50, 99}]

\* configurations of the decoder-latency limiter: a trigger on the second consecutive
\* overstep of 10 ms, and one on the first
LimiterConfigs ==
    { BitrateConfig(Adaptive(100, Disabled, Disabled, Disabled, Disabled,
                             Enabled(DecoderLatencyLimiter(10, 2, 50))), Disabled),
      BitrateConfig(Adaptive(100, Disabled, Disabled, Disabled, Disabled,
                             Enabled(DecoderLatencyLimiter(10, 1, 50))), Disabled) }

\* argument sets of the limiter: decoder latencies above and under the threshold, and a
\* report without network latency
BitrateLimiterInputs ==
    [configs |-> LimiterConfigs, ts |-> {1}, encoded |-> {<<11, 1000>>},
     network |-> {<<5, 20000, 11>>}, latencies |-> {<<16, 20>>, <<4, 5>>, <<0, 20>>},
     random |-> {50}]

\* configurations of the latency reports: a constant bit rate, and an adaptive one whose
\* decoder limiter triggers on the second consecutive overstep
QueueConfigs ==
    { BitrateConfig(ConstantMbps(30), Disabled),
      BitrateConfig(Adaptive(100, Disabled, Disabled, Disabled, Disabled,
                             Enabled(DecoderLatencyLimiter(10, 2, 50))), Disabled) }

\* argument sets of the latency reports: two frames, and reports with and without
\* network latency, over and under the decoder threshold
BitrateQueueInputs ==
    [configs |-> QueueConfigs, ts |-> 1..2, encoded |-> {<<11, 1000>>},
     network |-> {<<5, 20000, 11>>}, latencies |-> {<<16, 20>>, <<0, 20>>, <<0, 5>>},
     random |-> {50}]

\* every object as constructed, with the constructor arguments of ClientInit and
\* ServerInit
InitAll ==
    /\ calls = 0
    /\ now = 0
    /\ ClientInit
    /\ ServerInit

\* the client is driven; the server is left as constructed with the smallest arguments
InitClient ==
    /\ InitAll
    /\ driven = "client"
    /\ server_max_history_size = 1
    /\ server_frame_interval = 1
    /\ BitrateInit(1, 11, 30)

\* the server is driven, constructed with a history size in H and a nominal frame
\* interval in F; the client is left as constructed with the smallest arguments
InitServer(H, F) ==
    /\ InitAll
    /\ driven = "server"
    /\ server_max_history_size \in H
    /\ server_frame_interval \in F
    /\ client_max_history_size = 1
    /\ BitrateInit(1, 11, 30)

\* the bitrate controller is driven, constructed with a history size in H for 90 frames
\* per second and 30 Mbit/s; the trackers are left as constructed
InitBitrate(H) ==
    /\ InitAll
    /\ driven = "bitrate"
    /\ \E h \in H : BitrateInit(h, 11, 30)
    /\ client_max_history_size = 1
    /\ server_max_history_size = 1
    /\ server_frame_interval = 1

Init == InitClient \/ InitServer(1..MaxHistorySize, {1})

Next == Tick \/ NextClient(ClientRingInputs) \/ NextServer(ServerRingInputs)

\* both trackers, one per behaviour, over every frame identifier
Spec == Init /\ [][Next]_vars
\* the client tracker and its completed-record queue
SpecClient == InitClient /\ [][Tick \/ NextClient(ClientQueueInputs)]_vars
\* the client tracker's completed-record queue
SpecClientRetention == InitClient /\ [][NextClient(ClientRetentionInputs)]_vars
\* the server tracker's latency reconstruction
SpecServerLatency ==
    InitServer({MaxHistorySize}, {1}) /\ [][Tick \/ NextServer(ServerLatencyInputs)]_vars
\* the server tracker's shard accounting
SpecServerShards ==
    InitServer({1}, {1}) /\ [][Tick \/ NextServer(ServerShardInputs)]_vars
\* the bitrate controller's gate
SpecBitrateGating ==
    InitBitrate({MaxHistorySize}) /\ [][Tick \/ NextBitrate(BitrateGatingInputs)]_vars
\* the bitrate controller's adaptive mode
SpecBitrateAdaptive ==
    InitBitrate({MaxHistorySize}) /\ [][Tick \/ NextBitrate(BitrateAdaptiveInputs)]_vars
\* the bitrate controller's heuristic mode
SpecBitrateHeuristic ==
    InitBitrate({MaxHistorySize}) /\ [][Tick \/ NextBitrate(BitrateHeuristicInputs)]_vars

\* the step decision of the heuristic mode
SpecBitrateStep ==
    InitBitrate({MaxHistorySize}) /\ [][Tick \/ NextBitrate(BitrateStepInputs)]_vars

\* the decoder-latency limiter of the adaptive mode
SpecBitrateLimiter ==
    InitBitrate({MaxHistorySize}) /\ [][Tick \/ NextBitrate(BitrateLimiterInputs)]_vars

\* the frame-interval average under the adaptive-framerate policy: a window of
\* RETAINED_SAMPLES + 1 samples, frames presented 0, 500 or 1000 ms apart
FramerateConfigs ==
    { BitrateConfig(ConstantMbps(30), Disabled),
      BitrateConfig(ConstantMbps(20), AdaptiveFramerate(200)) }

NextBitrateFramerate ==
    \/ \E c \in FramerateConfigs :
          BitratePresentCall(bitrate_report_frame_present(c.adapt_to_framerate))
    \/ \E c \in FramerateConfigs : BitratePresentCall(bitrate_get_encoder_params(c, 50))

SpecBitrateFramerate ==
    InitBitrate({RETAINED_SAMPLES + 1}) /\ [][Tick \/ NextBitrateFramerate]_vars

\* the bit-size queue and the latency reports
SpecBitrateQueue ==
    InitBitrate({MaxHistorySize}) /\ [][Tick \/ NextBitrate(BitrateQueueInputs)]_vars

\* the server tracker's high-water mark and the pruning of the shard-accounting map
SpecServerMark ==
    InitServer({1}, {1}) /\ [][NextServer(ServerMarkInputs)]_vars

SpecServerVsync ==
    InitServer({1}, FrameIntervals)
        /\ [][TickTo(MaxVsyncNow) \/ NextServer(ServerVsyncInputs)]_vars

----------------------------------------------------------------------------
(* Claims *)

ClientKeys == { client_history_buffer[i].target_timestamp : i \in 1..Len(client_history_buffer) }
ServerKeys == { server_history_buffer[i].target_timestamp : i \in 1..Len(server_history_buffer) }

\* C1: when the acknowledged frame index is higher than the previous high-water
\* frame (whose shard count is in the map), shards sent =
\* (shard count of the previous frame - (previous shard index + 1))
\* + the shard counts of the frames strictly between + (new shard index + 1),
\* and shard loss = shards sent - rx_shard_counter.
C1_ShardsSentAsSpecified ==
    [][ \A cs \in ClientStatisticsSet(ServerShardInputs.ts, ServerShardInputs.latencies,
                                       ServerShardInputs.shards) :
          ( /\ ServerCall(MaxServerCalls, server_report_statistics(cs))
            /\ ServerFind(cs.target_timestamp) # 0
            /\ server_prev_highest_frame < cs.highest_rx_frame_index
            /\ server_prev_highest_frame \in DOMAIN server_map_frames_spf
            /\ server_fault' = "none" )
          => LET between == { k \in DOMAIN server_map_frames_spf :
                                /\ server_prev_highest_frame < k
                                /\ k < cs.highest_rx_frame_index }
                 sent == (server_map_frames_spf[server_prev_highest_frame]
                            - (server_prev_highest_shard + 1))
                         + MapSum(server_map_frames_spf, between)
                         + (cs.highest_rx_shard_index + 1)
             IN  /\ server_ret'.shards_sent = sent
                 /\ server_ret'.shard_loss_server = sent - cs.rx_shard_counter
      ]_vars

\* C2: summary(ts) called twice with no report in between returns not-found the
\* second time.
C2_SecondSummaryNotFound ==
    [][ \A ts \in ClientQueueInputs.ts :
          ( /\ client_ret.op = "summary"
            /\ client_ret.ts = ts
            /\ ClientCall(MaxClientCalls, client_summary(ts)) )
          => ~client_ret'.found
      ]_vars

\* C5: in both trackers the history ring holds at most max_history_size entries.
C5_RingBounded ==
    /\ Len(client_history_buffer) <= client_max_history_size
    /\ Len(server_history_buffer) <= server_max_history_size

\* a creation call on a full client ring has evicted a frame whose completed record
\* is still queued
C5_Witness ==
    /\ client_ret.op = "report_input_acquired"
    /\ ~client_ret.found
    /\ Len(client_history_buffer) = client_max_history_size
    /\ \E i \in 1..Len(client_stats_history_buffer) :
          client_stats_history_buffer[i].target_timestamp \notin ClientKeys

\* C6: a creation call for a target_timestamp already in the ring leaves the ring
\* unchanged, and the target_timestamps in a ring are pairwise distinct.
C6_DuplicateCreationIsNoop ==
    /\ [](/\ Cardinality(ClientKeys) = Len(client_history_buffer)
          /\ Cardinality(ServerKeys) = Len(server_history_buffer))
    /\ [][ /\ \A ts \in ClientKeys :
                ClientCall(MaxRingCalls, client_report_input_acquired(ts))
                => client_history_buffer' = client_history_buffer
           /\ \A ts \in ServerKeys :
                ServerCall(MaxRingCalls, server_report_tracking_received(ts))
                => server_history_buffer' = server_history_buffer
       ]_vars

\* a creation call has found its target_timestamp in a ring that holds two frames
C6_Witness ==
    \/ /\ server_ret.op = "report_tracking_received"
       /\ server_ret.found
       /\ Len(server_history_buffer) = 2
    \/ /\ client_ret.op = "report_input_acquired"
       /\ client_ret.found
       /\ Len(client_history_buffer) = 2

\* C9: report_statistics returns network latency = total pipeline latency minus
\* (game time + server compositor + encoder + decode + decoder queue + render +
\* vsync queue), floored at zero; the three server latencies are the saturating
\* differences of consecutive stage instants.
C9_NetworkLatencyIsResidual ==
    [][ \A cs \in ClientStatisticsSet(ServerLatencyInputs.ts, ServerLatencyInputs.latencies,
                                       ServerLatencyInputs.shards) :
          ( /\ ServerCall(MaxServerCalls, server_report_statistics(cs))
            /\ ServerFind(cs.target_timestamp) # 0
            /\ server_fault' = "none" )
          => LET f == server_history_buffer[ServerFind(cs.target_timestamp)]
                 game == Max(f.frame_present - f.tracking_received, 0)
                 compositor == Max(f.frame_composed - f.frame_present, 0)
                 encoder == Max(f.frame_encoded - f.frame_composed, 0)
                 others == game + compositor + encoder + cs.video_decode
                             + cs.video_decoder_queue + cs.rendering + cs.vsync_queue
             IN  /\ server_ret'.game_time_latency = game
                 /\ cs.total_pipeline_latency >= others
                      => server_ret'.network_latency + others = cs.total_pipeline_latency
                 /\ cs.total_pipeline_latency < others
                      => server_ret'.network_latency = 0
      ]_vars

\* report_statistics has returned a positive network latency and game-time latency
C9_Witness ==
    /\ server_ret.op = "report_statistics"
    /\ server_ret.found
    /\ server_ret.network_latency > 0
    /\ server_ret.game_time_latency > 0

\* C10: no shard-loss subtraction of report_statistics underflows or faults, and
\* the reported shard loss is zero when the difference would be negative (a
\* negative value here stands for the wrapped value 2^64 + shard_loss_server).
C10_ShardLossGuarded ==
    /\ server_fault # "panic"
    /\ server_ret.op = "report_statistics" => server_ret.shard_loss_server >= 0

\* C3: a get_encoder_params call whose configuration differs from the previously
\* seen one, or that is the first call, returns updated = 1, stores the
\* configuration as the previous one and sets the last update instant to now,
\* whatever the elapsed time and the update-needed flag.
C3_ConfigChangeForcesUpdate ==
    [][ \A c \in BitrateGatingInputs.configs, r \in BitrateGatingInputs.random :
          ( /\ BitrateCall(bitrate_get_encoder_params(c, r))
            /\ bitrate_previous_config # Some(c) )
          => /\ bitrate_ret'.updated = 1
             /\ bitrate_previous_config' = Some(c)
             /\ bitrate_last_update_instant' = now
      ]_vars

\* a call with a changed configuration was updated although the flag was clear and
\* the update interval had not elapsed since the previous update
C3_Witness ==
    /\ bitrate_ret.op = "get_encoder_params"
    /\ calls > 1
    /\ bitrate_ret.gate.config_changed
    /\ ~bitrate_ret.gate.update_needed
    /\ bitrate_ret.gate.interval_pending
    /\ bitrate_ret.updated = 1
    /\ bitrate_previous_config = bitrate_ret.config

\* C4: with a constant-bitrate configuration equal to the previous one and the
\* update-needed flag clear, get_encoder_params returns no-update however much
\* time has elapsed; a constant-mode call is updated only on a configuration
\* change or when the flag is set.
C4_ConstantModeIgnoresInterval ==
    [][ \A c \in BitrateGatingInputs.configs, r \in BitrateGatingInputs.random :
          ( /\ BitrateCall(bitrate_get_encoder_params(c, r))
            /\ c.mode.kind = "ConstantMbps" )
          => /\ (bitrate_previous_config = Some(c) /\ ~bitrate_update_needed)
                   => /\ bitrate_ret'.updated = 0
                      /\ bitrate_ret'.bitrate_bps = 0
                      /\ bitrate_ret'.stats = None
                      /\ bitrate_last_update_instant' = bitrate_last_update_instant
             /\ bitrate_ret'.updated = 1
                   => (bitrate_previous_config # Some(c) \/ bitrate_update_needed)
      ]_vars

\* an unchanged constant-mode call returned no-update a full update interval after
\* the last update
C4_Witness ==
    /\ bitrate_ret.op = "get_encoder_params"
    /\ bitrate_ret.config[1].mode.kind = "ConstantMbps"
    /\ bitrate_ret.updated = 0
    /\ as_millis(now) >= as_millis(bitrate_last_update_instant) + UPDATE_INTERVAL

\* the get_encoder_params call that last returned was an adaptive-mode recompute
AdaptiveRecompute ==
    /\ bitrate_ret.op = "get_encoder_params"
    /\ bitrate_ret.updated = 1
    /\ bitrate_ret.config[1].mode.kind = "Adaptive"

\* C7 as stated: through the clamp chain of an adaptive recompute (scaled average,
\* dynamic ceiling, network-latency ceiling, encoder-latency ceiling, configured
\* maximum, configured minimum) the output of every stage is at most its input, and
\* the returned bitrate is at most the scaled average.
C7_EveryStageNonIncreasing ==
    AdaptiveRecompute
    => /\ \A i \in 2..6 : bitrate_ret.stages[i] <= bitrate_ret.stages[i - 1]
       /\ bitrate_ret.bitrate_bps <= bitrate_ret.stages[1]

\* C7, amended: the output of every stage but the last is at most its input; the
\* configured minimum, when enabled, yields the larger of its input and the
\* minimum, so the returned bitrate is at most the larger of the scaled average
\* and the minimum (at most the scaled average when no minimum is configured).
C7_CeilingsNonIncreasingMinimumRaises ==
    AdaptiveRecompute
    => LET mode == bitrate_ret.config[1].mode
           stages == bitrate_ret.stages
           min == mbps_to_bps(mode.min_bitrate_mbps.content)
       IN  /\ \A i \in 2..5 : stages[i] <= stages[i - 1]
           /\ bitrate_ret.bitrate_bps = stages[6]
           /\ IF mode.min_bitrate_mbps.enabled
              THEN /\ stages[6] = Max(stages[5], min)
                   /\ bitrate_ret.bitrate_bps <= Max(stages[1], min)
              ELSE /\ stages[6] = stages[5]
                   /\ bitrate_ret.bitrate_bps <= stages[1]

\* an adaptive recompute whose dynamic ceiling lowered the scaled average and whose
\* configured minimum raised the result
C7_Witness ==
    /\ AdaptiveRecompute
    /\ bitrate_ret.stages[2] < bitrate_ret.stages[1]
    /\ bitrate_ret.stages[6] > bitrate_ret.stages[5]

\* the get_encoder_params call that last returned was a heuristic-mode recompute
HeuristicRecompute ==
    /\ bitrate_ret.op = "get_encoder_params"
    /\ bitrate_ret.updated = 1
    /\ bitrate_ret.config[1].mode.kind = "SimpleHeuristic"

\* C8: every heuristic-mode recompute returns a bitrate that is at most
\* capacity_multiplier x the peak-throughput average and is an exact multiple of
\* the step size.
C8_UnderCapacityOnStep ==
    HeuristicRecompute
    => LET mode == bitrate_ret.config[1].mode
       IN  /\ 100 * bitrate_ret.bitrate_bps
                 <= mode.capacity_multiplier * peak_throughput_average
           /\ bitrate_ret.bitrate_bps % mbps_to_bps(mode.steps_mbps) = 0

\* a heuristic recompute whose bounded target was above the capacity limit, the limit
\* not being a multiple of the step
C8_Witness ==
    /\ HeuristicRecompute
    /\ LET mode == bitrate_ret.config[1].mode
           limit == times(peak_throughput_average, mode.capacity_multiplier)
       IN  /\ bitrate_ret.stages[3] > limit
           /\ limit % mbps_to_bps(mode.steps_mbps) # 0
           /\ bitrate_ret.bitrate_bps > 0

\* what the server tracker holds besides the last call's return value and the
\* constructor's arguments
server_tracked == <<server_history_buffer, server_counters, server_shards, server_present,
                    server_last_full_report_instant>>

\* C11: a report_frame_present, report_frame_composed, report_frame_encoded,
\* report_frame_sent or report_statistics for a target_timestamp with no entry in
\* the server ring leaves the ring, the packet/byte counters, the shard-accounting
\* map, the high-water marks and the present interval unchanged.
C11_AbsentFrameReportsIgnored ==
    [][ \A ts \in ServerRingInputs.ts :
          ( /\ ts \notin ServerKeys
            /\ \/ \E offset \in ServerRingInputs.offsets :
                     \/ ServerCall(MaxRingCalls, server_report_frame_present(ts, offset))
                     \/ ServerCall(MaxRingCalls, server_report_frame_composed(ts, offset))
               \/ \E e \in ServerRingInputs.encoded :
                     ServerCall(MaxRingCalls, server_report_frame_encoded(ts, e[1], e[2]))
               \/ \E fi \in ServerRingInputs.frames, spf \in ServerRingInputs.spf :
                     ServerCall(MaxRingCalls, server_report_frame_sent(ts, fi, spf))
               \/ \E cs \in ClientStatisticsSet({ts}, ServerRingInputs.latencies,
                                                ServerRingInputs.shards) :
                     ServerCall(MaxRingCalls, server_report_statistics(cs)) )
          => UNCHANGED server_tracked
      ]_vars

\* the target_timestamps with a completed record in the client's queue
ClientQueued ==
    { client_stats_history_buffer[i].target_timestamp :
         i \in 1..Len(client_stats_history_buffer) }

\* C12: report_video_packet_received, report_video_statistics, report_frame_decoded,
\* report_compositor_start and report_submit for a target_timestamp with no entry
\* in the client ring leave the ring, the completed-record queue, the
\* pipeline-latency average and the previous-vsync marker unchanged; summary(ts)
\* for a ts with no completed record returns not-found and leaves the queue
\* unchanged.
C12_AbsentFrameReportsAreNoops ==
    [][ \A ts \in ClientRingInputs.ts :
          /\ ( /\ ts \notin ClientKeys
               /\ \/ ClientCall(MaxRingCalls, client_report_video_packet_received(ts))
                  \/ \E vs \in ClientRingInputs.video_stats :
                        ClientCall(MaxRingCalls, client_report_video_statistics(ts, vs))
                  \/ ClientCall(MaxRingCalls, client_report_frame_decoded(ts))
                  \/ ClientCall(MaxRingCalls, client_report_compositor_start(ts))
                  \/ \E q \in ClientRingInputs.vsync_queue :
                        ClientCall(MaxRingCalls, client_report_submit(ts, q)) )
             => UNCHANGED <<client_history_buffer, client_stats_history_buffer,
                            client_total_pipeline_latency_average, client_prev_vsync>>
          /\ ( /\ ts \notin ClientQueued
               /\ ClientCall(MaxRingCalls, client_summary(ts)) )
             => /\ ~client_ret'.found
                /\ UNCHANGED client_stats_history_buffer
      ]_vars

\* a report_submit did not find its frame, which had been evicted from the ring while
\* its completed record was queued
C12_Witness ==
    /\ client_ret.op = "report_submit"
    /\ ~client_ret.found
    /\ Len(client_history_buffer) > 0
    /\ Len(client_stats_history_buffer) > 0
    /\ ClientRingInputs.ts \subseteq ClientQueued

\* C13: report_statistics for a client record whose target_timestamp has no entry
\* in the server ring returns zero network latency and zero game-time latency,
\* emits no summary record and no graph record, and leaves the shard high-water
\* mark and the periodic-report marker where they were.
C13_AbsentFrameStatisticsAreZero ==
    [][ \A cs \in ClientStatisticsSet(ServerRingInputs.ts, ServerRingInputs.latencies,
                                       ServerRingInputs.shards) :
          ( /\ cs.target_timestamp \notin ServerKeys
            /\ ServerCall(MaxRingCalls, server_report_statistics(cs)) )
          => /\ server_ret'.network_latency = 0
             /\ server_ret'.game_time_latency = 0
             /\ ~server_ret'.summary
             /\ ~server_ret'.graph
             /\ server_fault' = "none"
             /\ UNCHANGED <<server_shards, server_last_full_report_instant>>
      ]_vars

\* report_statistics did not find its frame in a ring holding others, at an instant
\* when a summary was due and the high-water mark had never advanced
C13_Witness ==
    /\ server_ret.op = "report_statistics"
    /\ ~server_ret.found
    /\ Len(server_history_buffer) > 0
    /\ server_last_full_report_instant + FULL_REPORT_INTERVAL < now
    /\ server_prev_highest_frame = -1

\* C14: a report_statistics call that finds its frame emits a summary record
\* exactly when now is later than the periodic-report marker plus
\* FULL_REPORT_INTERVAL; on emission the marker advances by exactly
\* FULL_REPORT_INTERVAL and the three per-interval accumulators are reset to zero
\* while the totals are kept; with no emission the marker and the counters are
\* unchanged.  The marker is always the creation instant plus a multiple of the
\* interval.
C14_SummaryCadence ==
    /\ [](/\ server_last_full_report_instant % FULL_REPORT_INTERVAL = 0
          /\ server_last_full_report_instant <= now)
    /\ [][ \A cs \in ClientStatisticsSet(ServerRingInputs.ts, ServerRingInputs.latencies,
                                          ServerRingInputs.shards) :
             ( /\ ServerFind(cs.target_timestamp) # 0
               /\ ServerCall(MaxRingCalls, server_report_statistics(cs)) )
             => LET due == server_last_full_report_instant + FULL_REPORT_INTERVAL < now
                IN  /\ server_ret'.summary = due
                    /\ due =>
                         /\ server_last_full_report_instant' =
                               server_last_full_report_instant + FULL_REPORT_INTERVAL
                         /\ server_counters' =
                               [server_counters EXCEPT
                                  !.video_packets_partial_sum = 0,
                                  !.video_bytes_partial_sum = 0,
                                  !.packets_lost_partial_sum = 0]
                    /\ ~due => UNCHANGED <<server_last_full_report_instant, server_counters>>
       ]_vars

\* a summary was emitted two intervals after the marker: the marker is one interval
\* further and still behind now, packets were counted and the accumulators are zero
C14_Witness ==
    /\ server_ret.op = "report_statistics"
    /\ server_ret.summary
    /\ server_last_full_report_instant = FULL_REPORT_INTERVAL
    /\ server_last_full_report_instant < now
    /\ server_counters.video_packets_total > 0
    /\ server_counters.video_packets_partial_sum = 0

\* C15: a returning duration_until_next_vsync call gives a value in [0, frame interval];
\* it moves the vsync marker only forward, only by whole multiples of the frame
\* interval and only while marker + interval lies in the past; the value is the time
\* left to marker + interval, so when the previous call was also a vsync call and this
\* one leaves the marker in place, the value is not larger than the previous one.
C15_VsyncCountdown ==
    [][(ServerCall(ServerVsyncInputs.calls, server_duration_until_next_vsync)
            /\ server_fault' = "none")
        => LET interval == server_frame_interval
               marker == server_last_vsync_time
               moved == server_last_vsync_time'
               value == server_ret'.duration
           IN  /\ 0 <= value /\ value <= interval
               /\ value = saturating_sub(moved + interval, now)
               /\ moved >= marker
               /\ IF interval = 0 THEN moved = marker
                                  ELSE (moved - marker) % interval = 0
               /\ moved > marker => (marker + interval < now /\ moved < now)
               /\ (server_ret.op = "duration_until_next_vsync" /\ server_ret.found
                       /\ moved = marker)
                  => value <= server_ret.duration]_vars

\* a call late in a run has moved the marker by an interval of two ticks and returned
\* what is left of the interval it is in
C15_Witness ==
    /\ driven = "server"
    /\ server_ret.op = "duration_until_next_vsync"
    /\ server_ret.found
    /\ server_frame_interval = 2
    /\ server_last_vsync_time = 2
    /\ now = 3
    /\ server_ret.duration = 1

\* C18: duration_until_next_vsync terminates for every nominal frame interval, zero
\* included, and every amount of elapsed time, and on return the vsync marker is not
\* after now and now is not after marker + frame interval.
C18_VsyncTerminates ==
    [][ServerCall(ServerVsyncInputs.calls, server_duration_until_next_vsync)
        => /\ server_fault' = "none"
           /\ server_last_vsync_time' <= now
           /\ now <= server_last_vsync_time' + server_frame_interval]_vars

\* C16: get_encoder_params returns the no-update result (updated = 0, bitrate 0,
\* framerate 0, no diagnostic record) exactly when the configuration equals the
\* previously seen one, the update-needed flag is clear, and either less than the
\* update interval has passed since the last update or the mode is constant; every
\* other call returns updated = 1. A no-update call leaves the last update instant,
\* the flag, the last target bitrate, the previous configuration and the dynamic
\* ceiling unchanged.
C16_NoUpdateExactlyWhenGated ==
    [][ \A c \in BitrateGatingInputs.configs, r \in BitrateGatingInputs.random :
          BitrateCall(bitrate_get_encoder_params(c, r))
          => LET interval == IF c.mode.kind = "SimpleHeuristic"
                             THEN c.mode.update_interval_heuristic
                             ELSE UPDATE_INTERVAL
                 gated == /\ bitrate_previous_config = Some(c)
                          /\ ~bitrate_update_needed
                          /\ \/ as_millis(now) - as_millis(bitrate_last_update_instant)
                                    < interval
                             \/ c.mode.kind = "ConstantMbps"
             IN  IF gated
                 THEN /\ bitrate_ret'.updated = 0
                      /\ bitrate_ret'.bitrate_bps = 0
                      /\ bitrate_ret'.framerate = 0
                      /\ bitrate_ret'.stats = None
                      /\ UNCHANGED <<bitrate_last_update_instant, bitrate_update_needed,
                                     bitrate_last_target_bitrate, bitrate_previous_config,
                                     bitrate_dynamic_max_bitrate>>
                 ELSE bitrate_ret'.updated = 1
      ]_vars

\* an unchanged adaptive configuration returned no-update half an update interval
\* after a recompute, and the target of that recompute is still the last target
C16_Witness ==
    /\ bitrate_ret.op = "get_encoder_params"
    /\ bitrate_ret.config[1].mode.kind = "Adaptive"
    /\ bitrate_ret.updated = 0
    /\ bitrate_ret.stats = None
    /\ ~bitrate_ret.gate.config_changed
    /\ now > bitrate_last_update_instant
    /\ bitrate_previous_config = bitrate_ret.config
    /\ bitrate_last_target_bitrate > 0

\* the completed records of s for target_timestamp ts, and those for the others, in
\* queue order
RecordsOf(s, ts) == SelectSeq(s, LAMBDA r : r.target_timestamp = ts)
RecordsNotOf(s, ts) == SelectSeq(s, LAMBDA r : r.target_timestamp # ts)

\* C17: report_video_statistics(ts) for a frame in the ring appends its completed
\* record to the queue; no operation but summary removes or changes a queued record,
\* creation calls that evict ts from the ring included; summary(ts) returns and
\* removes the oldest queued record of ts, so every record appended for ts is
\* returned by a later summary(ts), and it leaves the records of every other
\* timestamp as they are.
C17_CompletedRecordRetained ==
    [][ /\ \A ts \in ClientRetentionInputs.ts, vs \in ClientRetentionInputs.video_stats :
              ( /\ ClientCall(ClientRetentionInputs.calls,
                              client_report_video_statistics(ts, vs))
                /\ ts \in ClientKeys )
              => /\ Len(client_stats_history_buffer')
                        = Len(client_stats_history_buffer) + 1
                 /\ LET record == client_stats_history_buffer'[
                                      Len(client_stats_history_buffer')]
                    IN  /\ record.target_timestamp = ts
                        /\ record.video_stats = vs
        /\ (calls' # calls /\ client_ret'.op # "summary")
              => SubSeq(client_stats_history_buffer', 1, Len(client_stats_history_buffer))
                    = client_stats_history_buffer
        /\ \A ts \in ClientRetentionInputs.ts :
              ClientCall(ClientRetentionInputs.calls, client_summary(ts))
              => LET queued == RecordsOf(client_stats_history_buffer, ts)
                 IN  /\ RecordsNotOf(client_stats_history_buffer', ts)
                            = RecordsNotOf(client_stats_history_buffer, ts)
                     /\ IF queued = <<>>
                        THEN /\ ~client_ret'.found
                             /\ UNCHANGED client_stats_history_buffer
                        ELSE /\ client_ret'.found
                             /\ client_ret'.record = Head(queued)
                             /\ RecordsOf(client_stats_history_buffer', ts) = Tail(queued)
      ]_vars

\* summary returned the record of a frame that a creation call had evicted from the
\* ring, and the record of another frame is still queued
C17_Witness ==
    /\ client_ret.op = "summary"
    /\ client_ret.found
    /\ client_ret.record.target_timestamp = client_ret.ts
    /\ client_ret.ts \notin ClientKeys
    /\ client_history_buffer # <<>>
    /\ client_stats_history_buffer # <<>>
    /\ \A i \in 1..Len(client_stats_history_buffer) :
          client_stats_history_buffer[i].target_timestamp # client_ret.ts

\* C19: the RTT threshold of a heuristic-mode recompute is the nominal frame interval,
\* fixed at construction from the initial framerate, times multiplier_rtt_threshold,
\* whatever the measured frame-interval average is.
C19_RttThresholdFromNominalInterval ==
    HeuristicRecompute
    => bitrate_heur_stats.threshold_rtt
          = bitrate_nominal_frame_interval
               * bitrate_ret.config[1].mode.multiplier_rtt_threshold

\* C20: in a heuristic-mode recompute, with previous the target the last recompute
\* emitted and r the random draw, the target before the clamps is previous - step for
\* every r when the network-observed FPS is below the FPS threshold; otherwise, when
\* the RTT average exceeds the RTT threshold, it is previous - step for r >= the
\* probability threshold and previous for smaller r; otherwise it is previous + step
\* for r <= the probability threshold and previous for larger r.  It differs from
\* previous by at most one step, and the target the recompute reports (requested_bps)
\* is the previous target of the next one.
C20_StepDecision ==
    [][ \A c \in BitrateStepInputs.configs, r \in BitrateStepInputs.random :
          ( /\ BitrateCall(bitrate_get_encoder_params(c, r))
            /\ c.mode.kind = "SimpleHeuristic"
            /\ bitrate_ret'.updated = 1 )
          => LET previous == bitrate_last_target_bitrate
                 step == mbps_to_bps(c.mode.steps_mbps)
                 target == bitrate_ret'.stages[2]
                 fps_below == 100 * Min(frame_interval_average, 1000)
                                 < c.mode.fps_threshold_multiplier
                                      * frame_interarrival_average
                 rtt_exceeds == 100 * rtt_average > bitrate_heur_stats'.threshold_rtt
                 threshold_u == c.mode.threshold_random_uniform
             IN  /\ bitrate_ret'.stages[1] = previous
                 /\ target = IF fps_below THEN previous - step
                             ELSE IF rtt_exceeds
                                  THEN IF r >= threshold_u THEN previous - step
                                                           ELSE previous
                                  ELSE IF r <= threshold_u THEN previous + step
                                                           ELSE previous
                 /\ target - previous \in {-step, 0, step}
                 /\ bitrate_last_target_bitrate' = bitrate_ret'.stats[1].requested_bps
      ]_vars

\* a recompute with the FPS at its threshold and the RTT average above its threshold
\* drew r at the probability threshold and stepped down from the target of an earlier
\* recompute
C20_Witness ==
    /\ HeuristicRecompute
    /\ calls > 2
    /\ LET mode == bitrate_ret.config[1].mode
       IN  /\ 100 * Min(bitrate_heur_stats.frame_interval, 1000)
                 >= mode.fps_threshold_multiplier * bitrate_heur_stats.frame_interarrival
           /\ 100 * bitrate_heur_stats.rtt_avg_heur > bitrate_heur_stats.threshold_rtt
           /\ bitrate_heur_stats.random_prob = mode.threshold_random_uniform
           /\ bitrate_ret.stages[2] = bitrate_ret.stages[1] - mbps_to_bps(mode.steps_mbps)
           /\ bitrate_ret.stages[1] # mbps_to_bps(bitrate_initial_bitrate)

\* C21: in heuristic mode with the configured minimum enabled, every updated result
\* of get_encoder_params returns a bitrate that is at least the configured minimum,
\* and at most the configured maximum when that is enabled too.
C21_HeuristicResultWithinBounds ==
    (HeuristicRecompute /\ bitrate_ret.config[1].mode.min_bitrate_mbps.enabled)
    => LET mode == bitrate_ret.config[1].mode
       IN  /\ bitrate_ret.bitrate_bps >= mbps_to_bps(mode.min_bitrate_mbps.content)
           /\ mode.max_bitrate_mbps.enabled
                 => bitrate_ret.bitrate_bps <= mbps_to_bps(mode.max_bitrate_mbps.content)

\* C22: a get_encoder_params call made while the update-needed flag is set returns an
\* updated result whatever the elapsed time and the mode, constant mode with an
\* unchanged configuration included, and clears the flag; the call that immediately
\* follows an updated one with the same configuration, inside the update interval,
\* returns no-update.
C22_FlagForcesOneUpdate ==
    [][ \A c \in BitrateGatingInputs.configs, r \in BitrateGatingInputs.random :
          BitrateCall(bitrate_get_encoder_params(c, r))
          => /\ bitrate_update_needed
                  => /\ bitrate_ret'.updated = 1
                     /\ ~bitrate_update_needed'
                     /\ bitrate_last_update_instant' = now
             /\ ( /\ bitrate_ret.op = "get_encoder_params"
                  /\ bitrate_ret.updated = 1
                  /\ bitrate_ret.config = Some(c)
                  /\ as_millis(now) - as_millis(bitrate_last_update_instant)
                        < (IF c.mode.kind = "SimpleHeuristic"
                           THEN c.mode.update_interval_heuristic
                           ELSE UPDATE_INTERVAL) )
                  => /\ bitrate_ret'.updated = 0
                     /\ ~bitrate_update_needed'
      ]_vars

\* a constant-mode call with the configuration of the call before it was updated
\* because a report had set the flag since, and the flag is clear again
C22_Witness ==
    /\ bitrate_ret.op = "get_encoder_params"
    /\ bitrate_ret.config[1].mode.kind = "ConstantMbps"
    /\ ~bitrate_ret.gate.config_changed
    /\ bitrate_ret.gate.update_needed
    /\ bitrate_ret.gate.interval_pending
    /\ bitrate_ret.updated = 1
    /\ ~bitrate_update_needed

\* C23: in adaptive mode with the decoder-latency limiter enabled, a
\* report_frame_latencies call whose decoder latency exceeds the threshold, and which
\* completes the configured number of consecutive oversteps (the counter holds the
\* oversteps since the last reset), sets the dynamic ceiling to min(achieved-bitrate
\* average, ceiling) x latency_overstep_multiplier, sets the update-needed flag and
\* resets the counter; an overstep that does not complete the number only counts; a
\* frame at or under the threshold resets the counter and leaves the ceiling unchanged.
\* The configured number may differ from one call to the next.
C23_OverstepTrigger ==
    [][ \A c \in BitrateLimiterInputs.configs, ts \in BitrateLimiterInputs.ts,
           l \in BitrateLimiterInputs.latencies :
          ( /\ BitrateCall(bitrate_report_frame_latencies(c.mode, ts, l[1], l[2]))
            /\ l[1] # 0 )
          => LET config == c.mode.decoder_latency_limiter.content
                 oversteps == bitrate_decoder_latency_overstep_count + 1
             IN  IF l[2] > config.max_decoder_latency_ms
                 THEN IF oversteps >= config.latency_overstep_frames
                      THEN /\ bitrate_dynamic_max_bitrate' =
                                 times(Min(bitrate_average', bitrate_dynamic_max_bitrate),
                                       config.latency_overstep_multiplier)
                           /\ bitrate_update_needed'
                           /\ bitrate_decoder_latency_overstep_count' = 0
                      ELSE /\ bitrate_decoder_latency_overstep_count' = oversteps
                           /\ UNCHANGED <<bitrate_dynamic_max_bitrate, bitrate_update_needed>>
                 ELSE /\ bitrate_decoder_latency_overstep_count' = 0
                      /\ UNCHANGED bitrate_dynamic_max_bitrate
      ]_vars

\* C24: report_frame_latencies(ts) with a non-zero network latency submits the
\* network-latency sample; when some queued bit-size entry has timestamp ts it removes
\* the entries up to and including the first such entry, submits that entry's bits /
\* network latency as the one achieved-bitrate sample and leaves the entries behind it
\* in place and in order; when none has, it empties the queue and submits no
\* achieved-bitrate sample.
C24_QueueDrainsForward ==
    [][ \A c \in BitrateQueueInputs.configs, ts \in BitrateQueueInputs.ts,
           l \in BitrateQueueInputs.latencies :
          ( /\ BitrateCall(bitrate_report_frame_latencies(c.mode, ts, l[1], l[2]))
            /\ l[1] # 0 )
          => LET queue == bitrate_packet_sizes_bits_history
                 hits == { i \in 1..Len(queue) : queue[i][1] = ts }
                 first == CHOOSE i \in hits : \A j \in hits : i <= j
             IN  /\ bitrate_network_latency_average' =
                       swa_submit_sample(bitrate_network_latency_average, l[1],
                                         bitrate_max_history_size)
                 /\ IF hits = {}
                    THEN /\ bitrate_packet_sizes_bits_history' = <<>>
                         /\ UNCHANGED bitrate_bitrate_average
                    ELSE /\ bitrate_packet_sizes_bits_history' =
                               SubSeq(queue, first + 1, Len(queue))
                         /\ bitrate_bitrate_average' =
                               swa_submit_sample(bitrate_bitrate_average,
                                                 queue[first][2] \div l[1],
                                                 bitrate_max_history_size)
      ]_vars

\* a report for frame 1 found its entry behind an entry of frame 2, and an entry of
\* frame 2 queued after it is still there
C24_Witness ==
    /\ bitrate_ret.op = "report_frame_latencies"
    /\ calls = 4
    /\ Len(bitrate_packet_sizes_bits_history) = 1
    /\ Head(bitrate_packet_sizes_bits_history)[1] = 2
    /\ Len(bitrate_bitrate_average) = 1
    /\ Len(bitrate_network_latency_average) = 1
    /\ Len(bitrate_encoder_latency_average) >= 2
    /\ bitrate_previous_config = None

\* the fields of the controller
bitrate_fields == <<bitrate_params, bitrate_frames, bitrate_queue, bitrate_latencies,
                    bitrate_gate, bitrate_network, bitrate_update_needed,
                    bitrate_last_target_bitrate, bitrate_heur_stats>>

\* C25: report_frame_latencies with a zero network latency leaves every field of the
\* controller unchanged, whatever the decoder latency and the mode: no sample is
\* submitted, the bit-size queue is not drained, and the overstep counter, the dynamic
\* ceiling and the update-needed flag stay as they are.
C25_ZeroLatencyIsSkipped ==
    [][ \A c \in BitrateQueueInputs.configs, ts \in BitrateQueueInputs.ts,
           l \in BitrateQueueInputs.latencies :
          ( /\ BitrateCall(bitrate_report_frame_latencies(c.mode, ts, l[1], l[2]))
            /\ l[1] = 0 )
          => UNCHANGED bitrate_fields
      ]_vars

\* after one overstep had been counted and a frame size queued, the third call of the
\* run was a report without network latency: the entry is still queued, the counter
\* is still 1 and the one network-latency sample is that of the first report
C25_Witness ==
    /\ bitrate_ret.op = "report_frame_latencies"
    /\ calls = 3
    /\ Len(bitrate_packet_sizes_bits_history) = 1
    /\ Len(bitrate_encoder_latency_average) = 1
    /\ Len(bitrate_network_latency_average) = 1
    /\ bitrate_decoder_latency_overstep_count = 1

\* the target_timestamps of a ring, front to back
KeySeq(buf) == [i \in 1..Len(buf) |-> buf[i].target_timestamp]

\* the ring after a creation call for an absent key: the new frame in front of the
\* entries it had, without the last of them when that makes it longer than cap
Evicting(buf, frame, cap) ==
    LET pushed == <<frame>> \o buf
    IN  SubSeq(pushed, 1, Min(Len(pushed), cap))

\* C26: in both trackers a creation call for a new key puts it at the front of the
\* ring and, when the ring is then longer than max_history_size, removes the back
\* entry and no other; no other operation changes which keys the ring holds or their
\* order; so the ring holds the most recently created keys, newest first, and its back
\* entry is the earliest-created one.
C26_RingEvictsOldest ==
    /\ [][ /\ \A ts \in ClientRingInputs.created :
                ( /\ ClientCall(ClientRingInputs.calls, client_report_input_acquired(ts))
                  /\ ts \notin ClientKeys )
                => client_history_buffer' =
                      Evicting(client_history_buffer, NewClientFrame(ts),
                               client_max_history_size)
           /\ (driven = "client" /\ calls' # calls
                  /\ client_ret'.op # "report_input_acquired")
                => KeySeq(client_history_buffer') = KeySeq(client_history_buffer)
           /\ \A ts \in ServerRingInputs.created :
                ( /\ ServerCall(ServerRingInputs.calls, server_report_tracking_received(ts))
                  /\ ts \notin ServerKeys )
                => server_history_buffer' =
                      Evicting(server_history_buffer, NewServerFrame(ts),
                               server_max_history_size)
           /\ (driven = "server" /\ calls' # calls
                  /\ server_ret'.op # "report_tracking_received")
                => KeySeq(server_history_buffer') = KeySeq(server_history_buffer)
         ]_vars
    /\ [](/\ \A i, j \in 1..Len(client_history_buffer) :
                i < j => client_history_buffer[i].input_acquired
                            >= client_history_buffer[j].input_acquired
          /\ \A i, j \in 1..Len(server_history_buffer) :
                i < j => server_history_buffer[i].tracking_received
                            >= server_history_buffer[j].tracking_received)

\* a creation call on a full client ring of two has evicted the first frame created,
\* whose completed record is still queued, and the newer of the two frames left is in
\* front
C26_Witness ==
    /\ client_ret.op = "report_input_acquired"
    /\ ~client_ret.found
    /\ client_max_history_size = 2
    /\ Len(client_history_buffer) = 2
    /\ client_history_buffer[1].input_acquired > client_history_buffer[2].input_acquired
    /\ \E i \in 1..Len(client_stats_history_buffer) :
          /\ client_stats_history_buffer[i].target_timestamp \notin ClientKeys
          /\ client_stats_history_buffer[i].input_acquired
                < client_history_buffer[2].input_acquired

\* C27: a report_statistics call that advances the high-water mark to a higher frame
\* index F leaves in the shard-accounting map no key lower than F and every key at or
\* above F that it held, with its shard count; a call that does not advance the
\* high-water frame leaves the map as it is.
C27_PruneBelowHighWater ==
    [][ \A cs \in ClientStatisticsSet(ServerMarkInputs.ts, ServerMarkInputs.latencies,
                                       ServerMarkInputs.shards) :
          ServerCall(ServerMarkInputs.calls, server_report_statistics(cs))
          => IF server_prev_highest_frame' > server_prev_highest_frame
             THEN /\ DOMAIN server_map_frames_spf' =
                        { k \in DOMAIN server_map_frames_spf :
                             k >= server_prev_highest_frame' }
                  /\ \A k \in DOMAIN server_map_frames_spf' :
                        server_map_frames_spf'[k] = server_map_frames_spf[k]
             ELSE UNCHANGED server_map_frames_spf
      ]_vars

\* a report has advanced the high-water frame to 2: the entry of frame 2 is still in
\* the map, and that of frame 1, the index under which the frame was last sent, is not
C27_Witness ==
    /\ server_ret.op = "report_statistics"
    /\ server_ret.found
    /\ server_fault = "none"
    /\ server_prev_highest_frame = 2
    /\ 2 \in DOMAIN server_map_frames_spf
    /\ 1 \notin DOMAIN server_map_frames_spf
    /\ server_history_buffer # <<>>
    /\ server_history_buffer[1].frame_index = 1

\* C30: over report_statistics calls the pair (prev_highest_frame, prev_highest_shard)
\* never decreases in frame index, and never decreases in shard index while the frame
\* index stays the same; a report whose highest received frame index is lower than the
\* high-water frame leaves the pair and the shard-accounting map unchanged and reports
\* a shard loss of zero; no other operation changes the pair.
C30_HighWaterMarkMonotonic ==
    [][ /\ \/ server_prev_highest_frame' > server_prev_highest_frame
           \/ /\ server_prev_highest_frame' = server_prev_highest_frame
              /\ server_prev_highest_shard' >= server_prev_highest_shard
        /\ <<server_prev_highest_frame, server_prev_highest_shard>>'
                # <<server_prev_highest_frame, server_prev_highest_shard>>
              => server_ret'.op = "report_statistics"
        /\ \A cs \in ClientStatisticsSet(ServerMarkInputs.ts, ServerMarkInputs.latencies,
                                         ServerMarkInputs.shards) :
              ( /\ ServerCall(ServerMarkInputs.calls, server_report_statistics(cs))
                /\ ServerFind(cs.target_timestamp) # 0
                /\ cs.highest_rx_frame_index < server_prev_highest_frame )
              => /\ UNCHANGED <<server_prev_highest_frame, server_prev_highest_shard,
                                server_map_frames_spf>>
                 /\ server_ret'.shard_loss_server = 0
                 /\ server_ret'.shards_sent = 0
      ]_vars

\* a report acknowledging frame 0 arrived after the high-water frame had reached 2:
\* the mark is still (2, 1) and the loss reported is zero
C30_Witness ==
    /\ server_ret.op = "report_statistics"
    /\ server_ret.found
    /\ server_ret.shards_sent = 0
    /\ server_ret.shard_loss_server = 0
    /\ server_prev_highest_frame = 2
    /\ server_prev_highest_shard = 1
    /\ server_ret.branch = "lower"

\* the most recent count samples of a window
LastSamples(window, count) ==
    [i \in 1..Min(Len(window), count) |-> window[Len(window) - Min(Len(window), count) + i]]

\* interval / average is above multiplier or below 1 / multiplier, for the average
\* SeqSum(window) / Len(window) and a multiplier in hundredths (0 / 0 is neither)
RatioOutOfBand(interval, window, multiplier) ==
    \/ 100 * interval * Len(window) > multiplier * SeqSum(window)
    \/ interval * multiplier * Len(window) < 100 * SeqSum(window)

\* C28: report_frame_present adds the interval since the previous presented frame to
\* the frame-interval average; with the adaptive-framerate policy enabled and the
\* interval / average ratio above the multiplier or below its reciprocal the average
\* keeps only its 5 most recent samples and the update-needed flag is set, so that the
\* next get_encoder_params call is an updated one; otherwise the average only gains
\* the sample and the flag keeps its value; with the policy disabled the call never
\* sets the flag.
C28_FramerateReset ==
    [][ /\ \A c \in FramerateConfigs :
              BitratePresentCall(bitrate_report_frame_present(c.adapt_to_framerate))
              => LET interval == as_millis(now - bitrate_last_frame_instant)
                     added == LastSamples(Append(bitrate_frame_interval_average, interval),
                                          bitrate_max_history_size)
                 IN  IF /\ c.adapt_to_framerate.enabled
                        /\ RatioOutOfBand(interval, added,
                              c.adapt_to_framerate.content.framerate_reset_threshold_multiplier)
                     THEN /\ bitrate_frame_interval_average' = LastSamples(added, 5)
                          /\ bitrate_update_needed'
                     ELSE /\ bitrate_frame_interval_average' = added
                          /\ bitrate_update_needed' = bitrate_update_needed
        /\ \A c \in FramerateConfigs :
              ( /\ BitratePresentCall(bitrate_get_encoder_params(c, 50))
                /\ bitrate_update_needed )
              => bitrate_ret'.updated = 1
      ]_vars

\* get_encoder_params had cleared the flag, and the last of six presented frames came
\* 500 ms after five frames presented together: of the six samples the window keeps
\* five, the oldest (500 ms) is gone, and the flag is set again
C28_Witness ==
    /\ bitrate_ret.op = "report_frame_present"
    /\ bitrate_previous_config # None
    /\ bitrate_update_needed
    /\ bitrate_frame_interval_average = <<0, 0, 0, 0, 500>>
    /\ as_millis(bitrate_last_frame_instant) = 1000

\* the values the stage reports write into a frame
StageValues(frame) ==
    <<frame.video_decode, frame.video_decoder_queue, frame.rendering, frame.vsync_queue,
      frame.total_pipeline_latency, frame.frame_interval>>

\* C29: the record returned by summary(ts) carries the decode, decoder-queue, render,
\* vsync-queue, total-pipeline-latency and frame-interval values of every stage report
\* made for ts before the call, whether the report came before or after
\* report_video_statistics(ts): with a ring large enough to keep every frame, they are
\* the values the ring entry of ts holds when summary is called.
C29_SummaryFullyAnnotated ==
    [][ \A ts \in ClientQueueInputs.ts :
          ( /\ ClientCall(ClientQueueInputs.calls, client_summary(ts))
            /\ client_max_history_size = MaxHistorySize
            /\ ClientFind(ts) # 0
            /\ position(client_stats_history_buffer, ts) # 0 )
          => StageValues(client_ret'.record)
                = StageValues(client_history_buffer[ClientFind(ts)])
      ]_vars

\* C31: no operation of the server tracker submits a sample to its
\* total-pipeline-latency average, report_statistics with the client-reported total
\* included: in every state the window is as constructed,
\* video_pipeline_latency_average() is the zero seed and tracker_pose_time_offset()
\* is the whole pipeline-latency budget.
C31_ServerAverageNeverSampled ==
    /\ server_total_pipeline_latency_average = <<>>
    /\ video_pipeline_latency_average = 0
    /\ tracker_pose_time_offset = server_steamvr_pipeline_latency

\* report_statistics has stored a positive client-reported total in a frame of the
\* ring, and the pose time offset is still the whole, positive budget
C31_Witness ==
    /\ server_ret.op = "report_statistics"
    /\ server_ret.found
    /\ \E i \in 1..Len(server_history_buffer) :
          server_history_buffer[i].total_pipeline_latency > 0
    /\ server_steamvr_pipeline_latency > 0
    /\ tracker_pose_time_offset = server_steamvr_pipeline_latency

====
